---- MODULE Spec2Model ----
(***************************************************************************)
(* A model of the envconsul Runner: the event loop of Runner.Start, the    *)
(* environment build of Runner.Run, and Runner.Stop / Runner.Signal called *)
(* from other goroutines.                                                  *)
(*                                                                         *)
(* Go strings are sequences of one-character strings, so that prefixing,   *)
(* sanitizing and upcasing are computed character by character.            *)
(***************************************************************************)
EXTENDS Integers, Sequences, FiniteSets, TLC

\* ------------------------------------------------------------------------
\* Strings
\* ------------------------------------------------------------------------

LowerCase == <<"a", "b", "c", "d", "e", "f", "g", "h", "i", "j", "k", "l", "m",
               "n", "o", "p", "q", "r", "s", "t", "u", "v", "w", "x", "y", "z">>
UpperCase == <<"A", "B", "C", "D", "E", "F", "G", "H", "I", "J", "K", "L", "M",
               "N", "O", "P", "Q", "R", "S", "T", "U", "V", "W", "X", "Y", "Z">>
Digits == {"0", "1", "2", "3", "4", "5", "6", "7", "8", "9"}
Whitespace == {" "}

Range(f) == {f[i] : i \in DOMAIN f}

\* The characters that InvalidRegexp ([^a-zA-Z0-9_]) does not match.
ValidChars == Range(LowerCase) \cup Range(UpperCase) \cup Digits \cup {"_"}

\* InvalidRegexp.ReplaceAllString(s, "_")
ReplaceInvalid(s) == [i \in DOMAIN s |-> IF s[i] \in ValidChars THEN s[i] ELSE "_"]

ToUpperChar(c) ==
    IF \E i \in DOMAIN LowerCase : LowerCase[i] = c
    THEN UpperCase[CHOOSE i \in DOMAIN LowerCase : LowerCase[i] = c]
    ELSE c

\* strings.ToUpper(s)
ToUpper(s) == [i \in DOMAIN s |-> ToUpperChar(s[i])]

\* strings.TrimSpace(s) == ""
TrimmedEmpty(s) == \A i \in DOMAIN s : s[i] \in Whitespace

\* fmt.Sprintf("%s_%s", path, key)
JoinUnderscore(path, key) == path \o <<"_">> \o key

DigitChar(n) ==
    CASE n = 0 -> "0" [] n = 1 -> "1" [] n = 2 -> "2" [] n = 3 -> "3"
      [] n = 4 -> "4" [] n = 5 -> "5" [] n = 6 -> "6" [] n = 7 -> "7"
      [] n = 8 -> "8" [] OTHER -> "9"

RECURSIVE Itoa(_)
\* strconv.Itoa(n), for n >= 0
Itoa(n) == IF n < 10 THEN <<DigitChar(n)>> ELSE Itoa(n \div 10) \o <<DigitChar(n % 10)>>

RECURSIVE JoinComma(_)
\* strings.Join(tags, ",")
JoinComma(tags) ==
    IF Len(tags) = 0 THEN <<>>
    ELSE IF Len(tags) = 1 THEN tags[1]
    ELSE tags[1] \o <<",">> \o JoinComma(Tail(tags))

\* ------------------------------------------------------------------------
\* Maps (map[string]string) and iteration orders
\* ------------------------------------------------------------------------

EmptyMap == [k \in {} |-> <<>>]

\* env[key] = value
Assign(m, key, value) ==
    [k \in DOMAIN m \cup {key} |-> IF k = key THEN value ELSE m[k]]

RECURSIVE Perms(_)
\* Every order in which a Go range over a map with key set S may visit it.
Perms(S) ==
    IF S = {} THEN {<<>>}
    ELSE UNION {{<<x>> \o p : p \in Perms(S \ {x})} : x \in S}

\* ------------------------------------------------------------------------
\* Templates.  A template text is a sequence of tokens: a one-character
\* string is literal text, a longer string is an action ({{key}},
\* {{service}}, {{env "VAR"}}).  kind is "absent" (nil or empty string,
\* config.StringPresent false), "ok", "parse_error" (Parse fails) or
\* "exec_error" (Execute fails).
\* ------------------------------------------------------------------------

NoTemplate == [kind |-> "absent", toks |-> <<>>]
Literal(s) == [kind |-> "ok", toks |-> s]
StringPresent(t) == t.kind # "absent"

KeyAction == "{{key}}"
ServiceAction == "{{service}}"
EnvAction == "{{env}}"
\* The variable that the {{env}} action of a path template reads.
EnvActionVar == <<"P">>

RECURSIVE ExecTokens(_, _, _)
\* tmpl.Execute: the literal text with each action replaced by its value;
\* bind maps the actions the function table defines to their values.
ExecTokens(toks, bind, acc) ==
    IF Len(toks) = 0 THEN acc
    ELSE LET t == Head(toks) IN
         ExecTokens(Tail(toks), bind,
                    acc \o (IF t \in DOMAIN bind THEN bind[t] ELSE <<t>>))

Actions(toks) == {toks[i] : i \in {j \in DOMAIN toks : toks[j] \in {KeyAction, ServiceAction, EnvAction}}}

\* The shared shape of applyFormatTemplate, applyPathTemplate and
\* applyServiceTemplate: a parse failure returns ("", nil), an execution
\* failure returns ("", err).  An action the function table does not define
\* is a parse failure; an action whose function returns an error (bind maps
\* it to "error") is an execution failure.
ApplyTemplate(contents, defined, bind) ==
    IF contents.kind = "parse_error" \/ ~(Actions(contents.toks) \subseteq defined)
    THEN [s |-> <<>>, err |-> FALSE]
    ELSE IF contents.kind = "exec_error"
            \/ \E a \in Actions(contents.toks) : a \notin DOMAIN bind
    THEN [s |-> <<>>, err |-> TRUE]
    ELSE [s |-> ExecTokens(contents.toks, bind, <<>>), err |-> FALSE]

applyFormatTemplate(contents, key) ==
    ApplyTemplate(contents, {KeyAction}, (KeyAction :> key))

\* environ is the OS environment (a map); env "VAR" fails when VAR is unset.
applyPathTemplate(contents, environ) ==
    ApplyTemplate(contents, {EnvAction},
                  IF EnvActionVar \in DOMAIN environ
                  THEN (EnvAction :> environ[EnvActionVar])
                  ELSE <<>>)

applyServiceTemplate(contents, service, key) ==
    ApplyTemplate(contents, {ServiceAction, KeyAction},
                  (ServiceAction :> service) @@ (KeyAction :> key))

\* config.StringVal(pc.Path): the template text as written, actions included.
RECURSIVE RawText(_)
RawText(toks) ==
    IF Len(toks) = 0 THEN <<>>
    ELSE (IF Head(toks) = EnvAction THEN <<"{", "{", "e", "n", "v", "}", "}">>
          ELSE <<Head(toks)>>) \o RawText(Tail(toks))

\* ------------------------------------------------------------------------
\* Configuration and dependencies (Runner.init)
\* ------------------------------------------------------------------------

\* A dependency stands for its own d.String(): kind and path identify it.
KVListQuery(path) == [kind |-> "kv", path |-> path]
CatalogServiceQuery(name) == [kind |-> "service", path |-> name]
VaultReadQuery(path) == [kind |-> "secret", path |-> path]

PrefixDeps(cfg, environ) ==
    [i \in DOMAIN cfg.Prefixes |->
        KVListQuery(applyPathTemplate(cfg.Prefixes[i].Path, environ).s)]

ServiceDeps(cfg) ==
    [i \in DOMAIN cfg.Services |-> CatalogServiceQuery(cfg.Services[i].Query)]

SecretDeps(cfg, environ) ==
    [i \in DOMAIN cfg.Secrets |->
        VaultReadQuery(applyPathTemplate(cfg.Secrets[i].Path, environ).s)]

\* A plausible slip: the vault dependencies registered before the consul ones.
initDependenciesSecretsFirst(cfg, environ) ==
    SecretDeps(cfg, environ) \o PrefixDeps(cfg, environ) \o ServiceDeps(cfg)

\* r.dependencies after init: consul prefixes, then services, then secrets.
initDependencies(cfg, environ) ==
    PrefixDeps(cfg, environ) \o ServiceDeps(cfg) \o SecretDeps(cfg, environ)

\* init returns an error (and NewRunner no runner) when a path template fails.
initFails(cfg, environ) ==
    \/ \E i \in DOMAIN cfg.Prefixes : applyPathTemplate(cfg.Prefixes[i].Path, environ).err
    \/ \E i \in DOMAIN cfg.Secrets : applyPathTemplate(cfg.Secrets[i].Path, environ).err

LastIndexOf(deps, d) ==
    CHOOSE i \in DOMAIN deps : deps[i] = d /\ \A j \in DOMAIN deps : j > i => deps[j] # d

\* r.configPrefixMap: a later stanza with the same d.String() replaces an
\* earlier one.
configPrefixMap(cfg, environ) ==
    LET kv == PrefixDeps(cfg, environ)
        sec == SecretDeps(cfg, environ)
    IN [d \in Range(kv) \cup Range(sec) |->
            IF d.kind = "kv" THEN cfg.Prefixes[LastIndexOf(kv, d)]
            ELSE cfg.Secrets[LastIndexOf(sec, d)]]

\* r.configServiceMap
configServiceMap(cfg) ==
    LET sv == ServiceDeps(cfg)
    IN [d \in Range(sv) |-> cfg.Services[LastIndexOf(sv, d)]]

\* ------------------------------------------------------------------------
\* appendPrefixes
\* ------------------------------------------------------------------------

Ok(s) == [s |-> s, err |-> FALSE]

\* A slip: the default of the vault secrets, the prefix unless NoPrefix is true.
KVPrefixedUnlessTrue(cp) == cp.NoPrefix # "true"

\* cp.NoPrefix != nil && !config.BoolVal(cp.NoPrefix) (line 554)
KVPrefixed(cp) == cp.NoPrefix = "false"

\* The key of one consul pair: prefix, format, sanitize, upcase.
PrefixKey(cp, cfg, key) ==
    LET k1 == IF KVPrefixed(cp)
              THEN JoinUnderscore(ReplaceInvalid(RawText(cp.Path.toks)), key)
              ELSE key
        f == IF StringPresent(cp.Format) THEN applyFormatTemplate(cp.Format, k1) ELSE Ok(k1)
        k3 == IF cfg.Sanitize THEN ReplaceInvalid(f.s) ELSE f.s
        k4 == IF cfg.Upcase THEN ToUpper(k3) ELSE k3
    IN [s |-> k4, err |-> f.err]

RECURSIVE PrefixPairs(_, _, _, _)
\* The loop over the pairs; an error returns with env as changed so far.
PrefixPairs(env, pairs, cp, cfg) ==
    IF Len(pairs) = 0 THEN [env |-> env, err |-> FALSE]
    ELSE LET pair == Head(pairs) IN
         IF TrimmedEmpty(pair.Key) THEN PrefixPairs(env, Tail(pairs), cp, cfg)
         ELSE LET k == PrefixKey(cp, cfg, pair.Key) IN
              IF k.err THEN [env |-> env, err |-> TRUE]
              ELSE PrefixPairs(Assign(env, k.s, pair.Value), Tail(pairs), cp, cfg)

appendPrefixes(env, d, data, cfg, environ) ==
    IF data.type # "kv" THEN [env |-> env, err |-> TRUE]
    ELSE PrefixPairs(env, data.pairs, configPrefixMap(cfg, environ)[d], cfg)

\* ------------------------------------------------------------------------
\* appendSecrets
\* ------------------------------------------------------------------------

\* Values of a secret's map[string]interface{}.
StringV(s) == [t |-> "string", s |-> s]
NilV == [t |-> "nil"]
NumberV == [t |-> "number"]
MapV(m) == [t |-> "map", m |-> m]

DataKey == <<"d", "a", "t", "a">>
MetadataKey == <<"m", "e", "t", "a", "d", "a", "t", "a">>
VersionKey == <<"v", "e", "r", "s", "i", "o", "n">>

\* m[k] != nil
NonNil(m, k) == k \in DOMAIN m /\ m[k].t # "nil"

\* data["metadata"].(map[string]interface{}) (line 601) and
\* valueMap["data"].(map[string]interface{}) (line 651) are unchecked type
\* assertions: on a value that is not nil and not a map they panic.
SecretPanics(data) ==
    \/ NonNil(data, MetadataKey) /\ data[MetadataKey].t # "map"
    \/ /\ NonNil(data, MetadataKey) /\ data[MetadataKey].t = "map"
       /\ NonNil(data[MetadataKey].m, VersionKey)
       /\ NonNil(data, DataKey) /\ data[DataKey].t # "map"

\* Where the assertion on metadata would panic there is no answer; FALSE
\* stands in, and SecretPanics tells the caller.
isVaultKv2(data) ==
    IF NonNil(data, MetadataKey) /\ data[MetadataKey].t = "map"
    THEN NonNil(data[MetadataKey].m, VersionKey)
    ELSE FALSE

\* valueMap after the KV2 unwrapping; a nil map ranges over nothing.
SecretValueMap(data) ==
    IF isVaultKv2(data)
    THEN IF NonNil(data, DataKey) /\ data[DataKey].t = "map" THEN data[DataKey].m ELSE EmptyMap
    ELSE data

\* A slip: the global format is not looked at.
applyPerKeyFormatAlways(cp) == cp.Keys.present

\* cp.Keys != nil && !config.StringPresent(cp.Format) (line 659)
applyPerKeyFormat(cp) == cp.Keys.present /\ ~StringPresent(cp.Format)

RECURSIVE AppliedFormats(_, _, _)
\* The formats of the key's entries, applied to the original key.
AppliedFormats(entries, originalKey, acc) ==
    IF Len(entries) = 0 THEN [keys |-> acc, err |-> FALSE]
    ELSE IF StringPresent(Head(entries).Format)
    THEN LET k == applyFormatTemplate(Head(entries).Format, originalKey) IN
         IF k.err THEN [keys |-> acc, err |-> TRUE]
         ELSE AppliedFormats(Tail(entries), originalKey, Append(acc, k.s))
    ELSE AppliedFormats(Tail(entries), originalKey, acc)

\* keys for one original key: skip is "not listed in configuration".
SecretKeys(cp, originalKey) ==
    IF ~applyPerKeyFormat(cp)
    THEN [keys |-> <<originalKey>>, err |-> FALSE, skip |-> FALSE]
    ELSE LET keyFormat == SelectSeq(cp.Keys.list, LAMBDA e : e.Name = originalKey) IN
         IF Len(keyFormat) = 0 THEN [keys |-> <<>>, err |-> FALSE, skip |-> TRUE]
         ELSE LET a == AppliedFormats(keyFormat, originalKey, <<>>) IN
              [keys |-> IF Len(a.keys) > 0 THEN a.keys ELSE <<originalKey>>,
               err |-> a.err, skip |-> FALSE]

\* cp.NoPrefix == nil || !config.BoolVal(cp.NoPrefix) (line 706)
SecretPrefixed(cp) == cp.NoPrefix # "true"

\* The key of one entry of keys: prefix, global format, sanitize, upcase.
SecretFinalKey(cp, cfg, environ, key) ==
    LET path == IF SecretPrefixed(cp) THEN applyPathTemplate(cp.Path, environ) ELSE Ok(<<>>)
        k1 == IF SecretPrefixed(cp) THEN JoinUnderscore(ReplaceInvalid(path.s), key) ELSE key
        f == IF StringPresent(cp.Format) THEN applyFormatTemplate(cp.Format, k1) ELSE Ok(k1)
        k3 == IF cfg.Sanitize THEN ReplaceInvalid(f.s) ELSE f.s
        k4 == IF cfg.Upcase THEN ToUpper(k3) ELSE k3
    IN [s |-> k4, err |-> path.err \/ f.err]

RECURSIVE SecretAssignKeys(_, _, _, _, _, _)
\* for i := range keys
SecretAssignKeys(env, keys, value, cp, cfg, environ) ==
    IF Len(keys) = 0 THEN [env |-> env, err |-> FALSE]
    ELSE LET k == SecretFinalKey(cp, cfg, environ, Head(keys)) IN
         IF k.err THEN [env |-> env, err |-> TRUE]
         ELSE IF value.t # "string"
         THEN SecretAssignKeys(env, Tail(keys), value, cp, cfg, environ)
         ELSE SecretAssignKeys(Assign(env, k.s, value.s), Tail(keys), value, cp, cfg, environ)

\* A slip: an entry with a blank key is not skipped.
SkipEntryNilOnly(originalKey, value) == value.t = "nil"

\* The two `continue` at the top of the loop (lines 667-677).
SkipEntry(originalKey, value) == TrimmedEmpty(originalKey) \/ value.t = "nil"

RECURSIVE SecretRange(_, _, _, _, _, _)
\* for originalKey, value := range valueMap, visited in the given order
SecretRange(env, order, valueMap, cp, cfg, environ) ==
    IF Len(order) = 0 THEN [env |-> env, err |-> FALSE]
    ELSE LET originalKey == Head(order)
             value == valueMap[originalKey]
             rest == Tail(order)
         IN IF SkipEntry(originalKey, value)
            THEN SecretRange(env, rest, valueMap, cp, cfg, environ)
            ELSE LET sk == SecretKeys(cp, originalKey) IN
                 IF sk.skip THEN SecretRange(env, rest, valueMap, cp, cfg, environ)
                 ELSE IF sk.err THEN [env |-> env, err |-> TRUE]
                 ELSE LET r == SecretAssignKeys(env, sk.keys, value, cp, cfg, environ) IN
                      IF r.err THEN r
                      ELSE SecretRange(r.env, rest, valueMap, cp, cfg, environ)

\* The orders in which the range over valueMap may visit its keys.
SecretOrders(valueMap) == Perms(DOMAIN valueMap)

\* Every outcome of appendSecrets: one per iteration order of valueMap.
appendSecrets(env, d, data, cfg, environ) ==
    IF data.type # "secret" THEN {[env |-> env, err |-> TRUE]}
    ELSE LET valueMap == SecretValueMap(data.Data)
             cp == configPrefixMap(cfg, environ)[d]
         IN {SecretRange(env, order, valueMap, cp, cfg, environ) :
                order \in SecretOrders(valueMap)}

\* ------------------------------------------------------------------------
\* appendServices
\* ------------------------------------------------------------------------

\* The five pairs of one service entry, in the order the code assigns them.
ServiceFields(ser, cs) ==
    << [name |-> <<"i", "d">>, format |-> cs.FormatId, value |-> ser.ServiceID],
       [name |-> <<"n", "a", "m", "e">>, format |-> cs.FormatName, value |-> ser.ServiceName],
       [name |-> <<"a", "d", "d", "r", "e", "s", "s">>, format |-> cs.FormatAddress,
        value |-> ser.ServiceAddress],
       [name |-> <<"t", "a", "g">>, format |-> cs.FormatTag, value |-> JoinComma(ser.ServiceTags)],
       [name |-> <<"p", "o", "r", "t">>, format |-> cs.FormatPort, value |-> Itoa(ser.ServicePort)] >>

RECURSIVE ServiceKV(_, _, _)
\* serKV of one entry; a template error returns from appendServices.
ServiceKV(serKV, fields, ser) ==
    IF Len(fields) = 0 THEN [m |-> serKV, err |-> FALSE]
    ELSE LET f == Head(fields)
             keyFormat == IF StringPresent(f.format)
                          THEN applyServiceTemplate(f.format, ser.ServiceName, f.name)
                          ELSE Ok(ser.ServiceName \o <<"/">> \o f.name)
         IN IF keyFormat.err THEN [m |-> serKV, err |-> TRUE]
            ELSE ServiceKV(Assign(serKV, keyFormat.s, f.value), Tail(fields), ser)

\* One pass of "for key, value := range serKV": upcase, then sanitize.
ServiceKey(cfg, key) ==
    LET k1 == IF cfg.Upcase THEN ToUpper(key) ELSE key
    IN IF cfg.Sanitize THEN ReplaceInvalid(k1) ELSE k1

RECURSIVE ServiceRange(_, _, _, _)
ServiceRange(env, order, serKV, cfg) ==
    IF Len(order) = 0 THEN env
    ELSE ServiceRange(Assign(env, ServiceKey(cfg, Head(order)), serKV[Head(order)]),
                      Tail(order), serKV, cfg)

RECURSIVE ServiceEntries(_, _, _, _)
\* for _, ser := range typed: every outcome, one per iteration order of each
\* serKV.
ServiceEntries(env, list, cs, cfg) ==
    IF Len(list) = 0 THEN {[env |-> env, err |-> FALSE]}
    ELSE LET ser == Head(list)
             kv == ServiceKV(EmptyMap, ServiceFields(ser, cs), ser)
         IN IF kv.err THEN {[env |-> env, err |-> TRUE]}
            ELSE UNION {ServiceEntries(ServiceRange(env, order, kv.m, cfg), Tail(list), cs, cfg) :
                            order \in Perms(DOMAIN kv.m)}

appendServices(env, d, data, cfg) ==
    IF data.type # "services" THEN {[env |-> env, err |-> TRUE]}
    ELSE ServiceEntries(env, data.list, configServiceMap(cfg)[d], cfg)

\* ------------------------------------------------------------------------
\* Runner.Run, the build of the environment (lines 274-301)
\* ------------------------------------------------------------------------

\* A slip: only the first dependency is looked up before building.
ReadyFirstOnly(deps, data) == Len(deps) = 0 \/ deps[1] \in DOMAIN data

\* Every dependency has an entry in r.data.
Ready(deps, data) == \A i \in DOMAIN deps : deps[i] \in DOMAIN data

\* The loop over r.dependencies reaches a secret whose data makes
\* appendSecrets panic: every dependency before it has data.
BuildPanics(deps, data) ==
    \E i \in DOMAIN deps :
        /\ \A j \in 1..i : deps[j] \in DOMAIN data
        /\ deps[i].kind = "secret"
        /\ data[deps[i]].type = "secret"
        /\ SecretPanics(data[deps[i]].Data)

\* The switch on the dependency's type; Run drops the error the append
\* function returns and keeps env as the function left it.
AppendDep(env, d, data, cfg, environ) ==
    CASE d.kind = "kv" -> {appendPrefixes(env, d, data, cfg, environ).env}
      [] d.kind = "secret" -> {r.env : r \in appendSecrets(env, d, data, cfg, environ)}
      [] OTHER -> {r.env : r \in appendServices(env, d, data, cfg)}

RECURSIVE BuildFrom(_, _, _, _, _)
\* The loop over r.dependencies from a set of possible env maps; a dependency
\* without data contributes nothing (Run has returned by then).
BuildFrom(envs, deps, data, cfg, environ) ==
    IF Len(deps) = 0 THEN envs
    ELSE LET d == Head(deps) IN
         IF d \notin DOMAIN data THEN envs
         ELSE BuildFrom(UNION {AppendDep(e, d, data[d], cfg, environ) : e \in envs},
                        Tail(deps), data, cfg, environ)

\* The env maps Run may have built when it reaches the comparison with r.env.
BuildResults(deps, data, cfg, environ) ==
    BuildFrom({EmptyMap}, deps, data, cfg, environ)

\* r.env is nil until the first build that changes it.
NilEnv == [nil |-> TRUE, m |-> EmptyMap]
EnvOf(m) == [nil |-> FALSE, m |-> m]

\* A slip: the maps are compared by identity, and no two are the same map.
SameEnvNever(renv, env) == FALSE

\* A slip: only the entries are compared, so a nil map equals an empty one.
SameEnvNilEmpty(renv, env) == renv.m = env

\* len(r.env) == len(env) && reflect.DeepEqual(r.env, env): a nil map is not
\* deeply equal to an empty one.
SameEnv(renv, env) ==
    /\ Cardinality(DOMAIN renv.m) = Cardinality(DOMAIN env)
    /\ ~renv.nil
    /\ renv.m = env

\* ------------------------------------------------------------------------
\* The environment of the child: Run (lines 325-350), applyConfigEnv and
\* combineLists (lines 975-1072)
\* ------------------------------------------------------------------------

\* The map with the entries of base and, over them, the entries of top.
Overlay(top, base) ==
    [k \in DOMAIN top \cup DOMAIN base |-> IF k \in DOMAIN top THEN top[k] ELSE base[k]]

\* strings.SplitN(v, "=", 2): the text before the first "=" and the text
\* after it, or v alone when it holds no "=".
SplitN(v) ==
    LET eqs == {i \in DOMAIN v : v[i] = "="} IN
    IF eqs = {} THEN <<v>>
    ELSE LET i == CHOOSE j \in eqs : \A l \in eqs : j <= l
         IN <<SubSeq(v, 1, i - 1), SubSeq(v, i + 1, Len(v))>>

RECURSIVE ParseCustom(_, _)
\* custom[list[0]] = list[1] for each entry of Exec.Env.Custom in turn
\* (lines 977-981); the entries drawn all hold an "=".
ParseCustom(entries, custom) ==
    IF Len(entries) = 0 THEN custom
    ELSE LET list == SplitN(Head(entries)) IN
         ParseCustom(Tail(entries), Assign(custom, list[1], list[2]))

RECURSIVE Match(_, _)
\* filepath.Match(pattern, s) for patterns made of literal characters, "*"
\* (any run of characters other than "/") and "?" (one character other
\* than "/").
Match(pattern, s) ==
    IF Len(pattern) = 0 THEN Len(s) = 0
    ELSE IF Head(pattern) = "*"
    THEN \/ Match(Tail(pattern), s)
         \/ Len(s) > 0 /\ Head(s) # "/" /\ Match(pattern, Tail(s))
    ELSE IF Len(s) = 0 THEN FALSE
    ELSE IF Head(pattern) = "?" THEN Head(s) # "/" /\ Match(Tail(pattern), Tail(s))
    ELSE Head(pattern) = Head(s) /\ Match(Tail(pattern), Tail(s))

anyGlobMatch(s, patterns) == \E i \in DOMAIN patterns : Match(patterns[i], s)

\* A slip: the deprecated list is left out.
combineListsFirst(a, b) == a

\* a, then the values of b that a does not hold.
combineLists(a, b) == a \o SelectSeq(b, LAMBDA v : v \notin Range(a))

\* A slip: the denylist removes nothing.
DenyFilterNone(keys, denylist) == keys

\* delete(keys, k) for every key a denylist glob matches (lines 1027-1034).
DenyFilter(keys, denylist) ==
    IF Len(denylist) > 0 THEN {k \in keys : ~anyGlobMatch(k, denylist)} ELSE keys

\* keys = include when the allowlist is not empty (lines 1010-1020).
AllowFilter(keys, allowlist) ==
    IF Len(allowlist) > 0 THEN {k \in keys : anyGlobMatch(k, allowlist)} ELSE keys

\* A slip: a custom variable is added only where env has no such key.
AddCustomUnder(env, custom) == Overlay(env, custom)

\* env[k] = v for every custom variable (lines 1046-1050).
AddCustom(env, custom) == Overlay(custom, env)

applyConfigEnv(cfg, env) ==
    LET custom == ParseCustom(cfg.Exec.Env.Custom, EmptyMap)
        allowlist == combineLists(cfg.Exec.Env.Allowlist, cfg.Exec.Env.AllowlistDeprecated)
        denylist == combineLists(cfg.Exec.Env.Denylist, cfg.Exec.Env.DenylistDeprecated)
        keys == DenyFilter(AllowFilter(DOMAIN env, allowlist), denylist)
    IN IF cfg.Exec.Env.Pristine
       THEN IF Cardinality(DOMAIN custom) > 0 THEN custom ELSE EmptyMap
       ELSE AddCustom([k \in keys |-> env[k]], custom)

\* A slip: the environment of the process is copied whatever Pristine says.
InheritsEnvironAlways(cfg) == TRUE

\* if !config.BoolVal(r.config.Pristine) (line 329)
InheritsEnviron(cfg) == ~cfg.Pristine

\* newEnv: os.Environ() unless pristine, then r.env over it (lines 326-339).
NewEnv(cfg, environ, renv) ==
    Overlay(renv, IF InheritsEnviron(cfg) THEN environ ELSE EmptyMap)

\* A slip: `var cmdEnv []string`, which stays nil when nothing is appended.
CmdEnvNilSlice(filteredEnv) == [nil |-> filteredEnv = EmptyMap, m |-> filteredEnv]

\* cmdEnv := make([]string, 0) and one "k=v" per entry of filteredEnv
\* (lines 347-350): never nil; kept as the map the entries spell.
CmdEnv(filteredEnv) == [nil |-> FALSE, m |-> filteredEnv]

\* The environment Run hands to child.New.
ChildEnv(cfg, environ, renv) == CmdEnv(applyConfigEnv(cfg, NewEnv(cfg, environ, renv)))

\* ------------------------------------------------------------------------
\* Bounds of the model and the inputs it draws
\* ------------------------------------------------------------------------

\* Data events the watcher delivers in one run.
MaxEvents == 3
\* Data events waiting in watcher.DataCh().
MaxQueue == 2
\* Children that terminate on their own in one run.
MaxExits == 2
\* Errors the watcher and the token watcher report in one run.
MaxErrs == 1
\* Goroutines that call Runner.Stop concurrently.
MaxStoppers == 2

\* ExitCh: make(chan int, 1)
ExitChCap == 1
\* A nil timer channel (never ready).
NoTimer == -1
\* No open quiescent window.
NoTime == NoTimer

NoKeys == [present |-> FALSE, list |-> <<>>]
PrefixConfig(path, noPrefix) ==
    [Path |-> Literal(path), NoPrefix |-> noPrefix, Format |-> NoTemplate, Keys |-> NoKeys]

WaitConfig(enabled, min, max) == [Enabled |-> enabled, Min |-> min, Max |-> max]

\* Exec.Env as DefaultConfig leaves it.
NoExecEnv ==
    [ Pristine |-> FALSE, Custom |-> <<>>,
      Allowlist |-> <<>>, AllowlistDeprecated |-> <<>>,
      Denylist |-> <<>>, DenylistDeprecated |-> <<>> ]

\* One consul prefix and one vault secret whose keys collide after upcase.
LoopConfig(wait, pidFile) ==
    [ Prefixes |-> <<PrefixConfig(<<"k">>, "unset")>>,
      Services |-> <<>>,
      Secrets |-> <<PrefixConfig(<<"s">>, "true")>>,
      Sanitize |-> FALSE, Upcase |-> TRUE,
      PidFile |-> pidFile, Wait |-> wait,
      Pristine |-> FALSE, Exec |-> [Env |-> NoExecEnv] ]

Pair(k, v) == [Key |-> k, Value |-> v]
KVPayload(pairs) == [type |-> "kv", pairs |-> pairs]
SecretPayload(m) == [type |-> "secret", Data |-> m]
ServicePayload(list) == [type |-> "services", list |-> list]

\* The payloads the watcher may deliver for a dependency.
KVPayloads ==
    { KVPayload(<<Pair(<<"t">>, <<"1">>), Pair(<<"w">>, <<"2">>)>>) }
SecretPayloads ==
    { SecretPayload(<<"t">> :> StringV(<<"3">>)),
      SecretPayload((<<"t">> :> StringV(<<"3">>)) @@ (<<"T">> :> StringV(<<"4">>))) }
\* What the second vault path holds.
OtherSecretPayloads ==
    { SecretPayload(<<"t">> :> StringV(<<"5">>)) }
ServicePayloads ==
    { ServicePayload(<< [ServiceID |-> <<"i">>, ServiceName |-> <<"w">>,
                         ServiceAddress |-> <<"a">>, ServiceTags |-> <<<<"t">>>>,
                         ServicePort |-> 80] >>) }

\* The vault path s/v and what it may hold: a KV1 secret of strings; a KV1
\* secret with a number under w, a nil under z and a blank key; a KV2
\* secret; a deleted KV2 secret; KV1 secrets with a key named metadata,
\* a map without version or a string.
VaultPath == <<"s", "/", "v">>
VaultPayloads ==
    { SecretPayload((<<"t">> :> StringV(<<"3">>)) @@ (<<"w">> :> StringV(<<"6">>))),
      SecretPayload((<<"t">> :> StringV(<<"3">>)) @@ (<<"w">> :> NumberV)
                    @@ (<<"z">> :> NilV) @@ (<<" ">> :> StringV(<<"5">>))),
      SecretPayload((DataKey :> MapV(<<"k">> :> StringV(<<"v">>)))
                    @@ (MetadataKey :> MapV(VersionKey :> NumberV))),
      SecretPayload((DataKey :> NilV) @@ (MetadataKey :> MapV(VersionKey :> NumberV))),
      SecretPayload((<<"t">> :> StringV(<<"3">>)) @@ (MetadataKey :> MapV(EmptyMap))),
      SecretPayload((<<"t">> :> StringV(<<"3">>)) @@ (MetadataKey :> StringV(<<"x">>))) }

PayloadsOf(d) ==
    CASE d.kind = "kv" -> KVPayloads
      [] d.kind = "secret" -> IF d.path = <<"s">> THEN SecretPayloads
                              ELSE IF d.path = VaultPath THEN VaultPayloads
                              ELSE OtherSecretPayloads
      [] OTHER -> ServicePayloads

ServiceConfig(query) ==
    [Query |-> query, FormatId |-> NoTemplate, FormatName |-> NoTemplate,
     FormatAddress |-> NoTemplate, FormatTag |-> NoTemplate, FormatPort |-> NoTemplate]

\* The configurations whose builds are examined: the prefix with one secret,
\* with two secrets, and with a service and a secret.
BuildConfigs ==
    LET c == LoopConfig(WaitConfig(FALSE, 0, 0), FALSE) IN
    { c,
      [c EXCEPT !.Secrets = <<PrefixConfig(<<"s">>, "true"), PrefixConfig(<<"u">>, "true")>>],
      [c EXCEPT !.Services = <<ServiceConfig(<<"w">>)>>, !.Sanitize = TRUE] }

\* Scenario 5 of the specification, in milliseconds.
Scenario5 == [Min |-> 100, Max |-> 400, times |-> <<0, 50, 120, 180>>]
\* Scripted runs: scenario 5, and one whose arrivals keep coming until the
\* absolute deadline, followed by a late arrival.
Scripts == {Scenario5.times, <<0, 90, 180, 270, 360, 500>>}

\* ------------------------------------------------------------------------
\* State
\* ------------------------------------------------------------------------

VARIABLES
    config,         \* r.config
    once,           \* r.once
    environ,        \* the OS environment of the process
    dependencies,   \* r.dependencies
    data,           \* r.data
    env,            \* r.env
    child,          \* r.child: 0 is nil, else an index of procs
    minTimer,       \* r.minTimer: NoTimer or the time it fires
    maxTimer,       \* r.maxTimer
    stopped,        \* r.stopped
    stopLock,       \* r.stopLock: 0 or the Stop call that holds it
    DoneCh,         \* r.DoneCh is closed
    ExitCh,         \* r.ExitCh: the buffered exit codes
    ErrCh,          \* the error Start is sending on r.ErrCh, or "none"
    pc,             \* where Start is
    exitCh,         \* Start's local exitCh: 0 is nil, else the child it belongs to
    code,           \* the exit code Start has received and is publishing
    spc,            \* where each call of Stop is
    procs,          \* the child processes spawned so far
    exitPending,    \* the children whose ExitCh holds an unread exit code
    dataCh,         \* watcher.DataCh(): the events not yet received
    watching,       \* the dependencies added to the watcher
    watcherStopped, \* watcher.Stop() was called
    tokenStopped,   \* vaultTokenWatcher.Stop() was called
    pidFile,        \* the PID file is on disk
    now,            \* the clock
    schedule,       \* a scripted run: the times at which the watcher delivers, and the next one
    nEvents,        \* data events delivered so far
    lastSent,       \* per dependency, the data the watcher delivered last
    nErrs,          \* errors reported so far
    lastCase,       \* the select case Start took last
    lastRun,        \* what the last call of Run did
    lastSignal,     \* what the last call of Signal did
    windowStart,    \* when the first data event of the open window was received
    lastData,       \* when the latest data event of the open window was received
    stopEffects,    \* how often Stop stopped the watchers, the child, deleted the PID file, closed DoneCh
    childLock,      \* r.childLock: who holds it for reading, whether it is held for writing
    dir,            \* the directory FromPath is given: entry name -> regular file with its text, or directory
    heap,           \* the Config structs allocated so far; a *Config is an index, nil is 0
    walkC,          \* FromPath's c, the config merged so far
    walked,         \* how many entries filepath.Walk has visited
    loadResult,     \* what FromPath returned, once it has
    mustResult      \* what Must returned, once it was called

vars == << config, once, environ, dependencies, data, env, child, minTimer,
           maxTimer, stopped, stopLock, DoneCh, ExitCh, ErrCh, pc, exitCh, code,
           spc, procs, exitPending, dataCh, watching, watcherStopped,
           tokenStopped, pidFile, now, schedule, nEvents, lastSent, nErrs,
           lastCase,
           lastRun, lastSignal, windowStart, lastData, stopEffects, childLock,
           dir, heap, walkC, walked, loadResult, mustResult >>

cfgVars == << config, once, environ, dependencies >>
lockVars == << childLock >>
loadVars == << dir, heap, walkC, walked, loadResult, mustResult >>
runnerVars == << data, env, child, minTimer, maxTimer >>
stopVars == << stopped, stopLock, DoneCh, spc, stopEffects, pidFile >>
watcherVars == << dataCh, watching, watcherStopped, tokenStopped, nEvents, lastSent, nErrs,
                 schedule >>
childVars == << procs, exitPending >>
loopVars == << pc, exitCh, code, lastCase, lastRun, ErrCh, ExitCh >>
timeVars == << now, windowStart, lastData >>

\* No configuration is being loaded.
NotCalled == [called |-> FALSE, cfg |-> 0, logged |-> FALSE]
NoLoad ==
    /\ dir = EmptyMap
    /\ heap = <<>>
    /\ walkC = 0
    /\ walked = 0
    /\ loadResult = [state |-> "none", cfg |-> 0]
    /\ mustResult = NotCalled

\* The fields of the Runner after NewRunner in a process whose environment
\* is osEnviron.
NewRunnerFields(osEnviron, cfg, o, stoppers, script) ==
    /\ config = cfg
    /\ once = o
    /\ environ = osEnviron
    /\ dependencies = initDependencies(cfg, osEnviron)
    /\ data = EmptyMap
    /\ env = NilEnv
    /\ child = 0
    /\ minTimer = NoTimer
    /\ maxTimer = NoTimer
    /\ stopped = FALSE
    /\ stopLock = 0
    /\ DoneCh = FALSE
    /\ ExitCh = <<>>
    /\ ErrCh = "none"
    /\ pc = "start"
    /\ exitCh = 0
    /\ code = 0
    /\ spc = [s \in 1..stoppers |-> "idle"]
    /\ procs = <<>>
    /\ exitPending = {}
    /\ dataCh = <<>>
    /\ watching = {}
    /\ watcherStopped = FALSE
    /\ tokenStopped = FALSE
    /\ pidFile = FALSE
    /\ now = 0
    /\ schedule = [times |-> script, next |-> 1]
    /\ nEvents = 0
    /\ lastSent = EmptyMap
    /\ nErrs = 0
    /\ lastCase = "none"
    /\ lastRun = [result |-> "none", emitted |-> EmptyMap]
    /\ lastSignal = "none"
    /\ windowStart = NoTime
    /\ lastData = NoTime
    /\ stopEffects = [watchers |-> 0, child |-> 0, pid |-> 0, close |-> 0]
    /\ childLock = [readers |-> {}, writer |-> FALSE]

\* NewRunner in a process whose environment is osEnviron: the state after
\* construction.
NewRunnerIn(osEnviron, cfg, o, stoppers, script) ==
    /\ NewRunnerFields(osEnviron, cfg, o, stoppers, script)
    /\ NoLoad

\* NewRunner in a process with an empty environment.
NewRunner(cfg, o, stoppers, script) == NewRunnerIn(EmptyMap, cfg, o, stoppers, script)

\* ------------------------------------------------------------------------
\* The child process (package child): Start, Stop, Signal, natural exit
\* ------------------------------------------------------------------------

Alive(c) == c \in DOMAIN procs /\ procs[c].state = "running"

\* child.Stop(): returns when the process has been reaped; a process that
\* has already exited stays as it is.
ChildStop(ps, c) ==
    IF c \in DOMAIN ps /\ ps[c].state = "running"
    THEN [ps EXCEPT ![c].state = "stopped"]
    ELSE ps

\* The process terminates on its own; its exit code lands on its ExitCh.
ChildExits(c) ==
    /\ Alive(c)
    /\ Cardinality({x \in DOMAIN procs : procs[x].state = "exited"}) < MaxExits
    /\ procs' = [procs EXCEPT ![c].state = "exited"]
    /\ exitPending' = exitPending \cup {c}
    /\ UNCHANGED << cfgVars, lockVars, loadVars, runnerVars, stopVars, watcherVars, loopVars, timeVars, lastSignal >>

\* ------------------------------------------------------------------------
\* The watcher (package watch) and the readers of ErrCh and ExitCh
\* ------------------------------------------------------------------------

\* A scripted run has deliveries left.
Scripted == schedule.next <= Len(schedule.times)
NextDelivery == schedule.times[schedule.next]

\* The watcher delivers data for a dependency it was given.
WatcherSend(d, payload) ==
    /\ d \in watching
    /\ ~watcherStopped
    /\ nEvents < MaxEvents
    /\ Len(dataCh) < MaxQueue
    /\ ~Scripted
    /\ dataCh' = Append(dataCh, [dep |-> d, data |-> payload])
    /\ nEvents' = nEvents + 1
    /\ lastSent' = Assign(lastSent, d, payload)
    /\ UNCHANGED << cfgVars, lockVars, loadVars, runnerVars, stopVars, childVars, loopVars, timeVars, lastSignal,
                    watching, watcherStopped, tokenStopped, nErrs, schedule >>

\* A scripted run: the watcher delivers at the times of the schedule.
ScheduledSend(d, payload) ==
    /\ d \in watching
    /\ ~watcherStopped
    /\ Scripted
    /\ NextDelivery = now
    /\ dataCh' = Append(dataCh, [dep |-> d, data |-> payload])
    /\ nEvents' = nEvents + 1
    /\ lastSent' = Assign(lastSent, d, payload)
    /\ schedule' = [schedule EXCEPT !.next = @ + 1]
    /\ UNCHANGED << cfgVars, lockVars, loadVars, runnerVars, stopVars, childVars, loopVars, timeVars, lastSignal,
                    watching, watcherStopped, tokenStopped, nErrs >>

\* Somebody receives the error Start is sending; Start returns.
ErrChRecv ==
    /\ pc = "errsend"
    /\ pc' = "returned"
    /\ ErrCh' = "none"
    /\ UNCHANGED << cfgVars, lockVars, loadVars, runnerVars, stopVars, watcherVars, childVars, timeVars, lastSignal,
                    exitCh, code, lastCase, lastRun, ExitCh >>

\* Somebody receives an exit code from r.ExitCh.
ExitChRecv ==
    /\ ExitCh # <<>>
    /\ ExitCh' = Tail(ExitCh)
    /\ UNCHANGED << cfgVars, lockVars, loadVars, runnerVars, stopVars, watcherVars, childVars, timeVars, lastSignal,
                    pc, exitCh, code, lastCase, lastRun, ErrCh >>

\* ------------------------------------------------------------------------
\* Runner.Start
\* ------------------------------------------------------------------------

\* A slip: the PID file is written whether or not a path is configured.
PidConfiguredAlways(cfg) == TRUE

\* storePid's `if path == ""` (lines 851-854), the other way round.
PidConfigured(cfg) == cfg.PidFile

\* storePid and the registration of the dependencies (lines 136-147).
\* created: OpenFile succeeded; written: WriteString succeeded.
StartBegin ==
    /\ pc = "start"
    /\ IF ~PidConfigured(config)
       THEN /\ pc' = "select"
            /\ watching' = Range(dependencies)
            /\ UNCHANGED << pidFile, ErrCh >>
       ELSE \E created \in BOOLEAN, written \in BOOLEAN :
            /\ pidFile' = (created \/ pidFile)
            /\ IF created /\ written
               THEN pc' = "select" /\ watching' = Range(dependencies) /\ UNCHANGED ErrCh
               ELSE pc' = "errsend" /\ ErrCh' = "pid" /\ UNCHANGED watching
    /\ UNCHANGED << cfgVars, lockVars, loadVars, runnerVars, stopped, stopLock, DoneCh, spc, stopEffects,
                    dataCh, watcherStopped, tokenStopped, nEvents, lastSent, nErrs, schedule,
                    childVars, timeVars, lastSignal, exitCh, code, lastCase, lastRun, ExitCh >>

\* r.Receive(d, data)
Receive(m, ev) == Assign(m, ev.dep, ev.data)

TimerDue(t) == t # NoTimer /\ now >= t
ExitReady == exitCh # 0 /\ exitCh \in exitPending

\* Some case of the select is ready (the error channels apart).
SelectReady ==
    dataCh # <<>> \/ TimerDue(minTimer) \/ TimerDue(maxTimer) \/ ExitReady \/ DoneCh

\* case data := <-r.watcher.DataCh()
LoopData ==
    /\ pc = "select"
    /\ dataCh # <<>>
    /\ data' = Receive(data, Head(dataCh))
    /\ dataCh' = Tail(dataCh)
    /\ pc' = "drain"
    /\ lastCase' = "data"
    /\ UNCHANGED << cfgVars, lockVars, loadVars, env, child, minTimer, maxTimer, stopVars, childVars, timeVars,
                    lastSignal, watching, watcherStopped, tokenStopped, nEvents, lastSent, nErrs,
                    schedule, exitCh, code, lastRun, ErrCh, ExitCh >>

\* A slip: maxTimer re-armed by every arrival.
ArmMaxAlways(t) == now + config.Wait.Max

\* A slip: maxTimer is left as it is, and so never armed.
ArmMaxNever(t) == t

\* if r.maxTimer == nil { r.maxTimer = time.After(Wait.Max) }
ArmMax(t) == IF t = NoTimer THEN now + config.Wait.Max ELSE t

\* A slip: minTimer armed only when it is nil, like maxTimer.
ArmMinOnce(t) == IF t = NoTimer THEN now + config.Wait.Min ELSE t

\* r.minTimer = time.After(Wait.Min)
ArmMin(t) == now + config.Wait.Min

\* A slip: the quiescence timers are set up whatever the configuration says.
WaitEnabledAlways == TRUE

\* config.BoolVal(r.config.Wait.Enabled)
WaitEnabled == config.Wait.Enabled

\* A slip: no drain, the event received goes straight to the timers or to Run.
DrainReadyNever == FALSE

\* case data = <-r.watcher.DataCh() of the inner select is ready; if it is
\* not, default: break OUTER (lines 157-162).
DrainReady == dataCh # <<>>

\* The drain loop (OUTER, lines 154-163), one event per step, and after it
\* the arming of the timers (lines 165-173) or the fall through to Run.
LoopDrain ==
    /\ pc = "drain"
    /\ IF DrainReady
       THEN /\ data' = Receive(data, Head(dataCh))
            /\ dataCh' = Tail(dataCh)
            /\ UNCHANGED << pc, minTimer, maxTimer, windowStart, lastData >>
       ELSE IF WaitEnabled
       THEN /\ minTimer' = ArmMin(minTimer)
            /\ maxTimer' = ArmMax(maxTimer)
            /\ pc' = "select"
            /\ windowStart' = IF windowStart = NoTime THEN now ELSE windowStart
            /\ lastData' = now
            /\ UNCHANGED << data, dataCh >>
       ELSE /\ pc' = "run"
            /\ UNCHANGED << data, dataCh, minTimer, maxTimer, windowStart, lastData >>
    /\ UNCHANGED << cfgVars, lockVars, loadVars, env, child, stopVars, childVars, now, lastSignal, watching,
                    watcherStopped, tokenStopped, nEvents, lastSent, nErrs, schedule, exitCh, code,
                    lastCase, lastRun, ErrCh, ExitCh >>

\* case <-r.minTimer, case <-r.maxTimer
LoopTimer(which) ==
    /\ pc = "select"
    /\ TimerDue(IF which = "min" THEN minTimer ELSE maxTimer)
    /\ minTimer' = NoTimer
    /\ maxTimer' = NoTimer
    /\ windowStart' = NoTime
    /\ lastData' = NoTime
    /\ lastCase' = which
    /\ pc' = "run"
    /\ UNCHANGED << cfgVars, lockVars, loadVars, data, env, child, stopVars, watcherVars, childVars, now,
                    lastSignal, exitCh, code, lastRun, ErrCh, ExitCh >>

LoopMinTimer == LoopTimer("min")
LoopMaxTimer == LoopTimer("max")

\* A slip: the error is never sent back, once mode or not.
OnceModeNever == FALSE

\* if r.once (lines 189, 196)
OnceMode == once

\* case err := <-r.watcher.ErrCh(), case err := <-r.vaultTokenWatcher.ErrCh()
LoopError(which) ==
    /\ pc = "select"
    /\ nErrs < MaxErrs
    /\ IF which = "watcher" THEN ~watcherStopped ELSE ~tokenStopped
    /\ nErrs' = nErrs + 1
    /\ lastCase' = which
    /\ IF OnceMode THEN pc' = "errsend" /\ ErrCh' = which
               ELSE pc' = "run" /\ UNCHANGED ErrCh
    /\ UNCHANGED << cfgVars, lockVars, loadVars, runnerVars, stopVars, childVars, timeVars, lastSignal, dataCh,
                    watching, watcherStopped, tokenStopped, nEvents, lastSent, schedule, exitCh, code,
                    lastRun, ExitCh >>

LoopWatcherErr == LoopError("watcher")
LoopTokenErr == LoopError("token")

\* case code := <-exitCh
LoopExit ==
    /\ pc = "select"
    /\ ExitReady
    /\ exitPending' = exitPending \ {exitCh}
    /\ code' = exitCh
    /\ lastCase' = "exit"
    /\ pc' = "publish"
    /\ UNCHANGED << cfgVars, lockVars, loadVars, runnerVars, stopVars, watcherVars, procs, timeVars, lastSignal,
                    exitCh, lastRun, ErrCh, ExitCh >>

\* r.ExitCh <- code: a send on a channel of capacity 1, which blocks while
\* the buffer is full.
LoopPublish ==
    /\ pc = "publish"
    /\ Len(ExitCh) < ExitChCap
    /\ ExitCh' = Append(ExitCh, code)
    /\ pc' = "run"
    /\ UNCHANGED << cfgVars, lockVars, loadVars, runnerVars, stopVars, watcherVars, childVars, timeVars,
                    lastSignal, exitCh, code, lastCase, lastRun, ErrCh >>

\* case <-r.DoneCh
LoopDone ==
    /\ pc = "select"
    /\ DoneCh
    /\ lastCase' = "done"
    /\ pc' = "returned"
    /\ UNCHANGED << cfgVars, lockVars, loadVars, runnerVars, stopVars, watcherVars, childVars, timeVars,
                    lastSignal, exitCh, code, lastRun, ErrCh, ExitCh >>

\* ------------------------------------------------------------------------
\* Runner.Run, as the steps at which another goroutine may observe it
\* ------------------------------------------------------------------------

\* A slip: the previous child is never stopped before the next is spawned.
HasChildNever(c) == FALSE

\* if r.child != nil (line 320)
HasChild(c) == c # 0

\* Lines 270-323 up to the decision to stop the child: the readiness check,
\* the build, the comparison with r.env and the update of r.env.
LoopRun ==
    /\ pc = "run"
    /\ IF BuildPanics(dependencies, data)
       THEN /\ lastRun' = [result |-> "panic", emitted |-> EmptyMap]
            /\ pc' = "panic"
            /\ UNCHANGED env
       ELSE IF ~Ready(dependencies, data)
       THEN /\ lastRun' = [result |-> "notready", emitted |-> EmptyMap]
            /\ pc' = "select"
            /\ UNCHANGED env
       ELSE \E e \in BuildResults(dependencies, data, config, environ) :
            IF SameEnv(env, e)
            THEN /\ lastRun' = [result |-> "same", emitted |-> e]
                 /\ pc' = "select"
                 /\ UNCHANGED env
            ELSE /\ lastRun' = [result |-> "changed", emitted |-> e]
                 /\ env' = EnvOf(e)
                 /\ pc' = IF HasChild(child) THEN "run_stop" ELSE "run_spawn"
    /\ UNCHANGED << cfgVars, lockVars, loadVars, data, child, minTimer, maxTimer, stopVars, watcherVars,
                    childVars, timeVars, lastSignal, exitCh, code, lastCase, ErrCh, ExitCh >>

\* r.stopChild() on the existing child (lines 320-323, 840-848).
LoopRunStop ==
    /\ pc = "run_stop"
    /\ procs' = ChildStop(procs, child)
    /\ pc' = "run_spawn"
    /\ UNCHANGED << cfgVars, lockVars, loadVars, runnerVars, stopVars, watcherVars, exitPending, timeVars,
                    lastSignal, exitCh, code, lastCase, lastRun, ErrCh, ExitCh >>

\* child.CommandPrep, child.New and child.Start (lines 325-375): any of them
\* may fail, and Start then sends the error on ErrCh (lines 210-213).
LoopRunSpawn ==
    /\ pc = "run_spawn"
    /\ \E ok \in BOOLEAN :
        IF ok
        THEN /\ procs' = Append(procs, [state |-> "running", emitted |-> env.m,
                                        cmdEnv |-> ChildEnv(config, environ, env.m)])
             /\ pc' = "run_assign"
             /\ UNCHANGED << lastRun, ErrCh >>
        ELSE /\ lastRun' = [lastRun EXCEPT !.result = "error"]
             /\ pc' = "errsend"
             /\ ErrCh' = "run"
             /\ UNCHANGED procs
    /\ UNCHANGED << cfgVars, lockVars, loadVars, runnerVars, stopVars, watcherVars, exitPending, timeVars,
                    lastSignal, exitCh, code, lastCase, ExitCh >>

\* r.child = child; return child.ExitCh() (lines 376-378) and exitCh = nexitCh
\* (lines 219-221).
LoopRunAssign ==
    /\ pc = "run_assign"
    /\ child' = Len(procs)
    /\ exitCh' = Len(procs)
    /\ pc' = "select"
    /\ UNCHANGED << cfgVars, lockVars, loadVars, data, env, minTimer, maxTimer, stopVars, watcherVars,
                    childVars, timeVars, lastSignal, code, lastCase, lastRun, ErrCh, ExitCh >>

\* ------------------------------------------------------------------------
\* Runner.Stop and Runner.Signal, called from other goroutines
\* ------------------------------------------------------------------------

\* A slip: the stopped flag is not consulted.
AlreadyStoppedNever == FALSE

\* if r.stopped (line 230)
AlreadyStopped == stopped

Bump(field) == [stopEffects EXCEPT ![field] = @ + 1]

\* Lines 226-236: take stopLock, return if already stopped, else stop the
\* watchers.
StopEnter(s) ==
    /\ spc[s] = "idle"
    /\ stopLock = 0
    /\ IF AlreadyStopped
       THEN /\ spc' = [spc EXCEPT ![s] = "returned"]
            /\ UNCHANGED << stopLock, watcherStopped, tokenStopped, stopEffects >>
       ELSE /\ stopLock' = s
            /\ watcherStopped' = TRUE
            /\ tokenStopped' = TRUE
            /\ stopEffects' = Bump("watchers")
            /\ spc' = [spc EXCEPT ![s] = "watchers"]
    /\ UNCHANGED << cfgVars, lockVars, loadVars, runnerVars, stopped, DoneCh, pidFile, dataCh, watching,
                    nEvents, lastSent, nErrs, schedule, childVars, loopVars, timeVars, lastSignal >>

\* r.stopChild() (line 237): whatever r.child is at this moment.
StopChild(s) ==
    /\ spc[s] = "watchers"
    /\ procs' = ChildStop(procs, child)
    /\ stopEffects' = Bump("child")
    /\ spc' = [spc EXCEPT ![s] = "child"]
    /\ UNCHANGED << cfgVars, lockVars, loadVars, runnerVars, stopped, stopLock, DoneCh, pidFile, watcherVars,
                    exitPending, loopVars, timeVars, lastSignal >>

\* Lines 239-247: deletePid, stopped = true, close(DoneCh), unlock.
StopFinish(s) ==
    /\ spc[s] = "child"
    /\ pidFile' = IF config.PidFile THEN FALSE ELSE pidFile
    /\ stopped' = TRUE
    /\ DoneCh' = TRUE
    /\ stopEffects' = [stopEffects EXCEPT !.pid = @ + 1, !.close = @ + 1]
    /\ stopLock' = 0
    /\ spc' = [spc EXCEPT ![s] = "returned"]
    /\ UNCHANGED << cfgVars, lockVars, loadVars, runnerVars, watcherVars, childVars, loopVars, timeVars,
                    lastSignal >>

\* A slip: the signal is sent to the process of the handle, running or not,
\* and to no handle as well.
SignalUnchecked ==
    /\ lastSignal' = "delivered"
    /\ lastSignal' # lastSignal
    /\ UNCHANGED << cfgVars, lockVars, loadVars, runnerVars, stopVars, watcherVars, childVars, loopVars,
                    timeVars >>

\* Runner.Signal (lines 259-266) in one step, lock and unlock included;
\* child.Signal reaches a running process only, and what it returns for a
\* handle whose process is gone is package child's.
Signal ==
    /\ lastSignal' = IF child = 0 THEN "noop"
                     ELSE IF Alive(child) THEN "delivered" ELSE "dead"
    /\ lastSignal' # lastSignal
    /\ UNCHANGED << cfgVars, lockVars, loadVars, runnerVars, stopVars, watcherVars, childVars, loopVars,
                    timeVars >>

\* Runner.Signal step by step.  r.childLock.RLock() (line 260): nobody ever
\* calls r.childLock.Lock(), so the read lock is always granted.
SignalLock ==
    /\ "Signal" \notin childLock.readers
    /\ ~childLock.writer
    /\ childLock' = [childLock EXCEPT !.readers = @ \cup {"Signal"}]
    /\ UNCHANGED << cfgVars, loadVars, runnerVars, stopVars, watcherVars, childVars, loopVars,
                    timeVars, lastSignal >>

\* The nil check, r.child.Signal(s) and the deferred RUnlock (lines 261-265).
SignalUnlock ==
    /\ "Signal" \in childLock.readers
    /\ lastSignal' = IF child = 0 THEN "noop"
                     ELSE IF Alive(child) THEN "delivered" ELSE "dead"
    /\ childLock' = [childLock EXCEPT !.readers = @ \ {"Signal"}]
    /\ UNCHANGED << cfgVars, loadVars, runnerVars, stopVars, watcherVars, childVars, loopVars,
                    timeVars >>

\* ------------------------------------------------------------------------
\* Time.  Start takes a ready case at once; time passes while Start waits in
\* the select with no case ready, or in a send nobody receives.  The clock
\* is followed only while a timer is armed or a scripted delivery is due
\* later, and no further than one tick past the last deadline.
\* ------------------------------------------------------------------------

Waiting ==
    \/ pc = "select" /\ ~SelectReady
    \/ pc = "publish" /\ Len(ExitCh) >= ExitChCap
    \/ pc \in {"errsend", "returned"}

Later(t) == t # NoTimer /\ now <= t

Tick ==
    /\ Waiting
    /\ IF Scripted THEN now < NextDelivery
       ELSE Later(minTimer) \/ Later(maxTimer)
    /\ now' = now + 1
    /\ UNCHANGED << cfgVars, lockVars, loadVars, runnerVars, stopVars, watcherVars, childVars, loopVars,
                    lastSignal, windowStart, lastData >>

\* ------------------------------------------------------------------------
\* Specifications
\* ------------------------------------------------------------------------

Deliver == \E d \in Range(dependencies) : \E payload \in PayloadsOf(d) : WatcherSend(d, payload)
Exits == \E c \in DOMAIN procs : ChildExits(c)
StopCalls == \E s \in DOMAIN spc : StopEnter(s) \/ StopChild(s) \/ StopFinish(s)

\* The steps of Start and Run when no quiescence window is used, and the
\* environment: the watcher, the child, the readers of ErrCh and ExitCh, and
\* the callers of Stop.
LoopStep ==
    \/ StartBegin
    \/ LoopData
    \/ LoopDrain
    \/ LoopWatcherErr
    \/ LoopTokenErr
    \/ LoopExit
    \/ LoopPublish
    \/ LoopDone
    \/ LoopRun
    \/ LoopRunStop
    \/ LoopRunSpawn
    \/ LoopRunAssign
    \/ Deliver
    \/ Exits
    \/ ErrChRecv
    \/ ExitChRecv
    \/ StopCalls

\* The runner without a quiescence window and one caller of Stop.
Init ==
    \E o \in BOOLEAN :
        NewRunner(LoopConfig(WaitConfig(FALSE, 0, 0), FALSE), o, 1, <<>>)

Next == LoopStep

Spec == Init /\ [][Next]_vars

\* The runner without a quiescence window, with or without a PID file, with
\* concurrent callers of Stop and of Signal.
InitStop ==
    \E o \in BOOLEAN, pf \in BOOLEAN :
        NewRunner(LoopConfig(WaitConfig(FALSE, 0, 0), pf), o, MaxStoppers, <<>>)

NextStop ==
    \/ LoopStep
    \/ Signal

SpecStop == InitStop /\ [][NextStop]_vars

\* A quiescence window of one to two ticks.
MinTicks == 1
MaxTicks == 2

\* The runner with a quiescence window, one caller of Stop, and the clock.
InitWait ==
    \E o \in BOOLEAN :
        NewRunner(LoopConfig(WaitConfig(TRUE, MinTicks, MaxTicks), FALSE), o, 1, <<>>)

NextWait ==
    \/ LoopStep
    \/ LoopMinTimer
    \/ LoopMaxTimer
    \/ Tick

SpecWait == InitWait /\ [][NextWait]_vars

\* ------------------------------------------------------------------------
\* Properties of the event loop
\* ------------------------------------------------------------------------

SomeDependencyWithoutData == \E i \in DOMAIN dependencies : dependencies[i] \notin DOMAIN data
RunReturns == pc = "run" /\ pc' # pc
Built == {"same", "changed"}

\* C1: while at least one registered dependency has no data yet, a call of
\* Run returns without stopping the current child, without spawning a child
\* and without changing the remembered environment, in whatever order the
\* data of the other dependencies has arrived.
C1_Readiness ==
    [][(RunReturns /\ SomeDependencyWithoutData)
        => (pc' = "select" /\ procs' = procs /\ child' = child /\ env' = env
            /\ exitCh' = exitCh)]_vars

\* Run has just returned for want of data while another dependency has its
\* data.
C1_Witness ==
    /\ lastRun.result = "notready"
    /\ pc = "select"
    /\ DOMAIN data # {}
    /\ SomeDependencyWithoutData

\* C2: a build that emits the environment Run remembers neither stops nor
\* spawns a child; hence two children spawned one after the other never got
\* the same environment, and once a build has been emitted some child has
\* been spawned (or the spawn failed and Start gave up): over arrivals that
\* all emit one environment exactly one spawn occurs.
C2_NoRestartOnIdenticalEnv ==
    /\ [][(RunReturns /\ lastRun'.result \in Built /\ ~env.nil /\ lastRun'.emitted = env.m)
           => (pc' = "select" /\ procs' = procs /\ child' = child /\ env' = env)]_vars
    /\ [](\A i \in DOMAIN procs : i > 1 => procs[i].emitted # procs[i - 1].emitted)
    /\ []((~env.nil /\ pc \notin {"run_stop", "run_spawn"} /\ lastRun.result # "error")
           => Len(procs) >= 1)

\* A second arrival has been built to the environment of the first, and the
\* first child is still the only one.
C2_Witness ==
    /\ lastRun.result = "same"
    /\ lastCase = "data"
    /\ nEvents >= 3
    /\ Len(procs) = 1
    /\ Alive(1)

\* ------------------------------------------------------------------------
\* Properties of the child's life cycle and of Stop
\* ------------------------------------------------------------------------

Running == {c \in DOMAIN procs : procs[c].state = "running"}
Spawns == Len(procs') > Len(procs)

\* C3: at most one child process spawned by the runner is alive at any time,
\* and a replacement is started only when the previous child has been
\* stopped or has exited.
C3_SingleFlight ==
    /\ [](Cardinality(Running) <= 1)
    /\ [][Spawns => Running = {}]_vars

\* A replacement runs, its predecessor was stopped by Run, and a call of
\* Stop is under way.
C3_Witness ==
    /\ Len(procs) >= 2
    /\ procs[1].state = "stopped"
    /\ procs[2].state = "running"
    /\ \E s \in DOMAIN spc : spc[s] \in {"watchers", "child"}

StopReturns(s) == spc[s] # "returned" /\ spc'[s] = "returned"

\* C4: at the moment a call of Stop returns, the watchers are stopped, no
\* child is alive, the PID file is gone and DoneCh is closed.
C4_StopTermination ==
    [][\A s \in DOMAIN spc :
        StopReturns(s) => /\ watcherStopped' /\ tokenStopped'
                          /\ Running' = {}
                          /\ ~pidFile'
                          /\ DoneCh']_vars

\* C5: Stop is idempotent: the watchers are stopped, the child is stopped,
\* the PID file is deleted and DoneCh is closed by one call only, and every
\* call that returns leaves DoneCh closed.
C5_StopIdempotent ==
    /\ \A f \in DOMAIN stopEffects : stopEffects[f] <= 1
    /\ Cardinality({s \in DOMAIN spc : spc[s] \in {"watchers", "child"}}) <= 1
    /\ \A s \in DOMAIN spc : spc[s] = "returned" => (DoneCh /\ stopEffects.close = 1)

\* Two calls of Stop have returned.
C5_Witness ==
    /\ Cardinality({s \in DOMAIN spc : spc[s] = "returned"}) >= 2
    /\ stopEffects.close = 1
    /\ \E c \in DOMAIN procs : procs[c].state = "stopped"

\* ------------------------------------------------------------------------
\* Properties of the quiescence window
\* ------------------------------------------------------------------------

WindowOpen == windowStart # NoTime
LoopRuns == pc \notin {"errsend", "returned"}

\* C8: with a quiescence window configured, the build for a data event is
\* attempted no later than Max after the first event of the window and no
\* later than Min after the latest event of the window: while Start runs
\* and a window is open, the clock is past neither deadline.
C8_QuiescenceBound ==
    (config.Wait.Enabled /\ WindowOpen /\ LoopRuns)
        => (now <= windowStart + config.Wait.Max /\ now <= lastData + config.Wait.Min)

ArmsTimers == pc = "drain" /\ pc' = "select"
TimerFires == pc = "select" /\ pc' # pc /\ lastCase' \in {"min", "max"}

\* C9: with a quiescence window configured, an arrival arms maxTimer only
\* when it is the first of its window and leaves it alone otherwise, and
\* arms minTimer anew every time; when either timer fires both are cleared
\* and a build is attempted.
C9_TimerArming ==
    /\ [][ArmsTimers =>
            /\ minTimer' = now + config.Wait.Min
            /\ ~WindowOpen => maxTimer' = now + config.Wait.Max
            /\ WindowOpen => (maxTimer' = maxTimer /\ maxTimer = windowStart + config.Wait.Max)]_vars
    /\ [][TimerFires => (minTimer' = NoTimer /\ maxTimer' = NoTimer /\ pc' = "run")]_vars
    /\ [](WindowOpen <=> maxTimer # NoTimer)
    /\ [](WindowOpen <=> minTimer # NoTimer)

\* A later arrival of an open window has armed minTimer anew and left
\* maxTimer as the first arrival armed it.
C9_Witness ==
    /\ WindowOpen
    /\ lastData > windowStart
    /\ pc = "select"
    /\ minTimer = lastData + config.Wait.Min
    /\ maxTimer = windowStart + config.Wait.Max

\* ------------------------------------------------------------------------
\* The build, over several configurations
\* ------------------------------------------------------------------------

InitBuild == \E cfg \in BuildConfigs : NewRunner(cfg, FALSE, 1, <<>>)

NextBuild ==
    \/ StartBegin
    \/ Deliver
    \/ LoopData
    \/ LoopDrain
    \/ LoopRun
    \/ LoopRunStop
    \/ LoopRunSpawn
    \/ LoopRunAssign

SpecBuild == InitBuild /\ [][NextBuild]_vars

\* What one dependency emits by itself from the data it has.
EmittedBy(d) == AppendDep(EmptyMap, d, data[d], config, environ)
KeysEmittedBy(d) == UNION {DOMAIN e : e \in EmittedBy(d)}
ValuesEmittedBy(d, K) == {e[K] : e \in {x \in EmittedBy(d) : K \in DOMAIN x}}
DepsOfKind(kind) == {d \in Range(dependencies) : d.kind = kind}
Collisions ==
    {K \in DOMAIN lastRun'.emitted :
        /\ \E k \in DepsOfKind("kv") : K \in KeysEmittedBy(k)
        /\ \E s \in DepsOfKind("secret") : K \in KeysEmittedBy(s)}
RunBuilds == RunReturns /\ lastRun'.result \in Built

\* C6 as the specification states it: for any KV dependency and any secret
\* dependency that both emit the key K in one build, env[K] is that
\* secret's value.
C6_SecretPrecedence ==
    [][RunBuilds =>
        \A k \in DepsOfKind("kv"), s \in DepsOfKind("secret") :
            \A K \in KeysEmittedBy(k) \cap KeysEmittedBy(s) :
                lastRun'.emitted[K] \in ValuesEmittedBy(s, K)]_vars

\* The secrets that emit K, by their place in r.dependencies.
SecretsEmitting(K) ==
    {i \in DOMAIN dependencies :
        dependencies[i].kind = "secret" /\ K \in KeysEmittedBy(dependencies[i])}
LastSecretEmitting(K) ==
    dependencies[CHOOSE i \in SecretsEmitting(K) : \A j \in SecretsEmitting(K) : j <= i]

\* C6: for any key K that a KV dependency and a secret dependency both emit
\* in one build, env[K] is the value of the last registered secret that
\* emits K, never the KV's value, whatever the order in which the data
\* arrived.
C6_SecretPrecedenceLastSecret ==
    [][RunBuilds =>
        \A K \in Collisions :
            lastRun'.emitted[K] \in ValuesEmittedBy(LastSecretEmitting(K), K)]_vars

\* A build in which the prefix and two secrets emit T, and T has the value
\* of the second secret.
C6_Witness ==
    /\ lastRun.result = "changed"
    /\ Cardinality(DepsOfKind("secret")) = 2
    /\ \A d \in Range(dependencies) : d \in DOMAIN data /\ <<"T">> \in KeysEmittedBy(d)
    /\ lastRun.emitted[<<"T">>] = <<"5">>

\* C7: the environment a build emits is a function of the snapshot, the
\* configuration and the registration order: a snapshot with data for every
\* dependency has one build.
C7_BuildDeterminism ==
    (\A i \in DOMAIN dependencies : dependencies[i] \in DOMAIN data)
        => Cardinality(BuildResults(dependencies, data, config, environ)) = 1

\* ------------------------------------------------------------------------
\* Scripted runs of the quiescence window
\* ------------------------------------------------------------------------

InitScenario ==
    \E script \in Scripts :
        NewRunner(LoopConfig(WaitConfig(TRUE, Scenario5.Min, Scenario5.Max), FALSE),
                  FALSE, 1, script)

ScheduledDeliver ==
    \E d \in Range(dependencies) : \E payload \in PayloadsOf(d) : ScheduledSend(d, payload)

NextScenario ==
    \/ StartBegin
    \/ ScheduledDeliver
    \/ LoopData
    \/ LoopDrain
    \/ LoopMinTimer
    \/ LoopMaxTimer
    \/ LoopRun
    \/ LoopRunStop
    \/ LoopRunSpawn
    \/ LoopRunAssign
    \/ Tick

SpecScenario == InitScenario /\ [][NextScenario]_vars

IsScenario5 == schedule.times = Scenario5.times
AllFolded == nEvents = Len(Scenario5.times) /\ dataCh = <<>>
FirstBuild == lastRun.result = "none"
RearmedAtEachArrival ==
    (WindowOpen /\ pc = "select")
        => /\ lastData \in Range(Scenario5.times)
           /\ minTimer = lastData + Scenario5.Min
           /\ maxTimer = Scenario5.Max

\* C10 as the specification states it: in scenario 5 minTimer is re-armed at
\* each arrival and the one build, with all four events, is triggered by
\* maxTimer at t=400.
C10_CoalesceAtMax ==
    IsScenario5 =>
        /\ RearmedAtEachArrival
        /\ pc = "run" => (lastCase = "max" /\ now = Scenario5.Max /\ AllFolded /\ FirstBuild)

\* C10: in scenario 5 minTimer is re-armed at each arrival, maxTimer stays
\* armed for t=400, and the one build, with all four events, is triggered by
\* minTimer at t=280, Min after the last arrival.
C10_CoalesceAtMin ==
    IsScenario5 =>
        /\ RearmedAtEachArrival
        /\ pc = "run" =>
            (lastCase = "min" /\ now = Scenario5.times[4] + Scenario5.Min /\ AllFolded /\ FirstBuild)

\* Scenario 5 has come to its build.
C10_Witness ==
    /\ IsScenario5
    /\ pc = "run"
    /\ now = 280
    /\ AllFolded

\* ------------------------------------------------------------------------
\* Properties of the select cases
\* ------------------------------------------------------------------------

DrainEnds == pc = "drain" /\ pc' # pc
TakesCase(cases) == pc = "select" /\ pc' # pc /\ lastCase' \in cases
ErrorCases == {"watcher", "token"}
NoBuildNoChild ==
    /\ lastRun' = lastRun
    /\ env' = env
    /\ procs' = procs
    /\ child' = child

\* C11: with Wait disabled, Start goes from the drain of the data channel
\* straight to Run, Run is what it does next, and neither minTimer nor
\* maxTimer is ever armed.
C11_ImmediateBuild ==
    /\ [][(~config.Wait.Enabled /\ DrainEnds) => pc' = "run"]_vars
    /\ [][(~config.Wait.Enabled /\ pc = "run") =>
            (pc' = "run" \/ (pc' \in {"select", "run_stop", "run_spawn"}
                             /\ lastRun'.result \in {"notready", "same", "changed"}))]_vars
    /\ [](~config.Wait.Enabled => (minTimer = NoTimer /\ maxTimer = NoTimer))

\* A second data event has been handled and Run is about to build.
C11_Witness ==
    /\ ~config.Wait.Enabled
    /\ pc = "run"
    /\ lastCase = "data"
    /\ lastRun.result # "none"

\* C12: in once mode, the first build that has spawned the child ends the
\* event loop: Start has returned.
C12_OnceTerminates == (once /\ child # 0) => pc = "returned"

\* C13: in once mode an error from the watcher or the token watcher is sent
\* on ErrCh and Start returns once it is received, with no build attempted
\* and no child stopped or spawned by the loop.
C13_OnceErrorFatal ==
    /\ [][(once /\ TakesCase(ErrorCases)) =>
            (pc' = "errsend" /\ ErrCh' = lastCase' /\ NoBuildNoChild)]_vars
    /\ [][(once /\ pc = "errsend" /\ ErrCh \in ErrorCases) =>
            (pc' \in {"errsend", "returned"} /\ lastRun' = lastRun /\ env' = env
             /\ child' = child /\ Len(procs') = Len(procs))]_vars

\* In once mode, with the child running, an error has been sent and
\* received, Start has returned and the child still runs.
C13_Witness ==
    /\ once
    /\ pc = "returned"
    /\ lastCase \in ErrorCases
    /\ Len(procs) = 1
    /\ procs[1].state = "running"

\* C14: outside once mode an error from the watcher or the token watcher
\* changes nothing: no build is attempted, no child is stopped or spawned,
\* the remembered environment and the timers stay as they are, and Start
\* goes back to waiting.
C14_ErrorIgnored ==
    [][(~once /\ TakesCase(ErrorCases)) =>
        (pc' = "select" /\ NoBuildNoChild /\ minTimer' = minTimer /\ maxTimer' = maxTimer)]_vars

\* ------------------------------------------------------------------------
\* Builds that meet an error: a snapshot entry of the wrong type, a format
\* template that does not parse or does not execute
\* ------------------------------------------------------------------------

\* The prefix of LoopConfig with a format template of the given kind.
FormatConfig(kind) ==
    LET c == LoopConfig(WaitConfig(FALSE, 0, 0), FALSE) IN
    [c EXCEPT !.Prefixes = <<[PrefixConfig(<<"k">>, "unset") EXCEPT
                                 !.Format = [kind |-> kind, toks |-> <<KeyAction>>]]>>]

FaultConfigs == {FormatConfig("ok"), FormatConfig("parse_error"), FormatConfig("exec_error")}

\* The data the type assertion of the append function of d rejects
\* (data.([]*dep.KeyPair), data.(*dep.Secret), data.([]*dep.CatalogService)).
WrongPayloadsOf(d) ==
    CASE d.kind = "kv" -> {SecretPayload(<<"t">> :> StringV(<<"3">>))}
      [] d.kind = "secret" -> KVPayloads
      [] OTHER -> KVPayloads

\* The watcher hands over a view whose data is not of the dependency's type.
Misdeliver ==
    \E d \in Range(dependencies) : \E payload \in WrongPayloadsOf(d) : WatcherSend(d, payload)

InitFault == \E cfg \in FaultConfigs : NewRunner(cfg, FALSE, 1, <<>>)

NextFault ==
    \/ StartBegin
    \/ Deliver
    \/ Misdeliver
    \/ LoopData
    \/ LoopDrain
    \/ LoopRun
    \/ LoopRunStop
    \/ LoopRunSpawn
    \/ LoopRunAssign

SpecFault == InitFault /\ [][NextFault]_vars

ExpectedType(d) ==
    CASE d.kind = "kv" -> "kv"
      [] d.kind = "secret" -> "secret"
      [] OTHER -> "services"
WrongShape == \E d \in DOMAIN data : data[d].type # ExpectedType(d)
FailingFormats == {"parse_error", "exec_error"}
TemplateFails ==
    \E i \in DOMAIN config.Prefixes :
        /\ config.Prefixes[i].Format.kind \in FailingFormats
        /\ KVListQuery(config.Prefixes[i].Path.toks) \in DOMAIN data
        /\ data[KVListQuery(config.Prefixes[i].Path.toks)].type = "kv"
BuildAborts ==
    /\ pc' = "select"
    /\ lastRun'.result \notin Built
    /\ env' = env
    /\ procs' = procs

\* C15: a build that meets a snapshot entry of the wrong type for its
\* dependency aborts: r.env is left as it was and no child is stopped or
\* spawned.
C15_DecodingErrorAborts ==
    [][(RunReturns /\ ~SomeDependencyWithoutData /\ WrongShape) => BuildAborts]_vars

\* C16: a build in which a format template fails to parse or to execute
\* fails, no child is stopped or spawned, and the environment never holds a
\* key made from the failed template (the empty key).
C16_TemplateErrorFails ==
    /\ [][(RunReturns /\ ~SomeDependencyWithoutData /\ TemplateFails) => BuildAborts]_vars
    /\ [](\A i \in DOMAIN config.Prefixes :
            config.Prefixes[i].Format.kind \in FailingFormats => <<>> \notin DOMAIN env.m)

\* ------------------------------------------------------------------------
\* The environment handed to the child, over several Exec.Env
\* configurations and environments of the process
\* ------------------------------------------------------------------------

\* Scenario 4 of the specification: the ambient environment and the lists.
Scenario4 ==
    [ environ |-> (<<"P", "A", "T", "H">> :> <<"/", "x">>)
                  @@ (<<"S", "E", "C", "R", "E", "T", "_", "A">> :> <<"1">>)
                  @@ (<<"H", "O", "M", "E">> :> <<"/", "h">>),
      allowlist |-> << <<"P", "A", "T", "H">>, <<"H", "O", "M", "E">> >>,
      denylist |-> << <<"H", "O", "*">> >> ]

\* A second environment, in which T and W are also keys the dependencies emit.
Environs ==
    { Scenario4.environ,
      (<<"P", "A", "T", "H">> :> <<"/", "y">>) @@ (<<"T">> :> <<"0">>)
          @@ (<<"W">> :> <<"0">>) }

\* The allowlists and denylists drawn: none, those of scenario 4, lists
\* split between the current and the deprecated fields, a denylist alone.
ExecEnvLists ==
    { NoExecEnv,
      [NoExecEnv EXCEPT !.Allowlist = Scenario4.allowlist, !.Denylist = Scenario4.denylist],
      [NoExecEnv EXCEPT !.Allowlist = << <<"P", "A", "T", "H">> >>,
                        !.AllowlistDeprecated = << <<"H", "O", "M", "E">>,
                                                   <<"S", "E", "C", "R", "E", "T", "_", "?">>,
                                                   <<"W">> >>,
                        !.Denylist = << <<"X">> >>,
                        !.DenylistDeprecated = Scenario4.denylist],
      [NoExecEnv EXCEPT !.Denylist = << <<"T", "*">> >>] }

\* Exec.Env.Custom: nothing, or HOME=/c and T=9.
Customs ==
    { <<>>,
      << <<"H", "O", "M", "E", "=", "/", "c">>, <<"T", "=", "9">> >> }

EnvConfigs ==
    { [LoopConfig(WaitConfig(FALSE, 0, 0), FALSE) EXCEPT
          !.Pristine = p,
          !.Exec = [Env |-> [l EXCEPT !.Pristine = ep, !.Custom = c]]] :
        p \in BOOLEAN, ep \in BOOLEAN, l \in ExecEnvLists, c \in Customs }

InitEnv == \E cfg \in EnvConfigs : \E e \in Environs : NewRunnerIn(e, cfg, FALSE, 1, <<>>)

NextEnv ==
    \/ StartBegin
    \/ Deliver
    \/ LoopData
    \/ LoopDrain
    \/ LoopRun
    \/ LoopRunStop
    \/ LoopRunSpawn
    \/ LoopRunAssign

SpecEnv == InitEnv /\ [][NextEnv]_vars

Children == DOMAIN procs
Handed(c) == procs[c].cmdEnv
CustomVars == ParseCustom(config.Exec.Env.Custom, EmptyMap)
AllowGlobs == Range(config.Exec.Env.Allowlist) \cup Range(config.Exec.Env.AllowlistDeprecated)
DenyGlobs == Range(config.Exec.Env.Denylist) \cup Range(config.Exec.Env.DenylistDeprecated)
Passes(K) ==
    /\ AllowGlobs = {} \/ \E g \in AllowGlobs : Match(g, K)
    /\ ~\E g \in DenyGlobs : Match(g, K)
PristineMode == config.Pristine \/ config.Exec.Env.Pristine
Restrict(m, keys) == [k \in DOMAIN m \cap keys |-> m[k]]

\* C17 as stated: in pristine mode (either flag) the child's environment is
\* the custom variables over the emitted ones, which leaves no room for a
\* key inherited from the OS environment.
C17_PristinePurity ==
    PristineMode =>
        \A c \in Children : Handed(c).m = Overlay(CustomVars, procs[c].emitted)

\* C17 amended: in pristine mode the child's environment is made of the
\* configuration and the emitted variables alone: with Exec.Env.Pristine it
\* is the custom variables; with the top-level Pristine only it is the custom
\* variables over the emitted variables that pass the allowlist and the
\* denylist.  No key comes from the OS environment.
C17_PristinePurityFiltered ==
    PristineMode =>
        \A c \in Children :
            /\ Handed(c).m =
                 IF config.Exec.Env.Pristine THEN CustomVars
                 ELSE Overlay(CustomVars,
                              Restrict(procs[c].emitted, {K \in DOMAIN procs[c].emitted : Passes(K)}))
            /\ DOMAIN Handed(c).m \subseteq DOMAIN CustomVars \cup DOMAIN procs[c].emitted

\* Top-level Pristine alone, an OS environment with PATH in it, custom
\* variables and emitted variables: a child holds both kinds and no PATH.
C17_Witness ==
    /\ config.Pristine /\ ~config.Exec.Env.Pristine
    /\ <<"P", "A", "T", "H">> \in DOMAIN environ
    /\ \E c \in Children :
        /\ <<"W">> \in DOMAIN Handed(c).m
        /\ <<"H", "O", "M", "E">> \in DOMAIN Handed(c).m
        /\ <<"P", "A", "T", "H">> \notin DOMAIN Handed(c).m

C19_AmbientFilter ==
    ~PristineMode =>
        \A c \in Children :
            \A K \in DOMAIN environ \ (DOMAIN procs[c].emitted \cup DOMAIN CustomVars) :
                /\ K \in DOMAIN Handed(c).m <=> Passes(K)
                /\ K \in DOMAIN Handed(c).m => Handed(c).m[K] = environ[K]

\* Scenario 4 with the denylist in the deprecated field: PATH and SECRET_A
\* are handed to the child, HOME, which both lists match, is not.
C19_Witness ==
    /\ ~PristineMode
    /\ environ = Scenario4.environ
    /\ config.Exec.Env.Custom = <<>>
    /\ config.Exec.Env.DenylistDeprecated = Scenario4.denylist
    /\ \E c \in Children :
        /\ <<"P", "A", "T", "H">> \in DOMAIN Handed(c).m
        /\ <<"S", "E", "C", "R", "E", "T", "_", "A">> \in DOMAIN Handed(c).m
        /\ <<"H", "O", "M", "E">> \notin DOMAIN Handed(c).m

C21_CustomWins ==
    \A c \in Children :
        /\ \A i \in DOMAIN config.Exec.Env.Custom :
            LET list == SplitN(config.Exec.Env.Custom[i]) IN
            /\ list[1] \in DOMAIN Handed(c).m
            /\ Handed(c).m[list[1]] = list[2]
        /\ \A K \in DOMAIN Handed(c).m :
            (\A i \in DOMAIN config.Exec.Env.Custom : SplitN(config.Exec.Env.Custom[i])[1] # K) =>
                Handed(c).m[K] = IF K \in DOMAIN procs[c].emitted THEN procs[c].emitted[K]
                                 ELSE environ[K]

\* Custom T=9 and HOME=/c, a denylist that matches HOME, an OS environment
\* with T, W and PATH, T and W emitted: the child holds the custom T and
\* HOME, the emitted W and the OS PATH.
C21_Witness ==
    /\ ~PristineMode
    /\ config.Exec.Env.Denylist = << <<"T", "*">> >>
    /\ \E c \in Children :
        /\ {<<"T">>, <<"W">>} \subseteq DOMAIN procs[c].emitted \cap DOMAIN environ
        /\ {<<"T">>, <<"W">>, <<"H", "O", "M", "E">>, <<"P", "A", "T", "H">>} \subseteq DOMAIN Handed(c).m
        /\ Handed(c).m[<<"T">>] = <<"9">>
        /\ Handed(c).m[<<"H", "O", "M", "E">>] = <<"/", "c">>
        /\ Handed(c).m[<<"W">>] = procs[c].emitted[<<"W">>]
        /\ Handed(c).m[<<"W">>] # environ[<<"W">>]
        /\ Handed(c).m[<<"P", "A", "T", "H">>] = environ[<<"P", "A", "T", "H">>]

\* ------------------------------------------------------------------------
\* The keys a build emits, over the no_prefix settings, the keys lists and
\* the payloads of a vault secret
\* ------------------------------------------------------------------------

KVPath == <<"f", "o", "o", "/", "b", "a", "r", "/", "b", "a", "z">>
TriState == {"unset", "true", "false"}

\* The prefix foo/bar/baz and the secret s/v under every pair of no_prefix
\* settings, with sanitize and upcase both off or both on.
NoPrefixConfigs ==
    { [LoopConfig(WaitConfig(FALSE, 0, 0), FALSE) EXCEPT
          !.Prefixes = <<PrefixConfig(KVPath, kn)>>,
          !.Secrets = <<PrefixConfig(VaultPath, sn)>>,
          !.Sanitize = su, !.Upcase = su] :
        kn \in TriState, sn \in TriState, su \in BOOLEAN }

KeyFormat(name, format) == [Name |-> name, Format |-> format]
FormatA == Literal(<<"A", "_", KeyAction>>)
FormatB == Literal(<<"B", "_", KeyAction>>)
GlobalFormat == Literal(<<"G", "_", KeyAction>>)

\* Keys: absent; present and empty; t twice with a format and w without;
\* t once without a format and once with.
KeyLists ==
    { NoKeys,
      [present |-> TRUE, list |-> <<>>],
      [present |-> TRUE, list |-> <<KeyFormat(<<"t">>, FormatA), KeyFormat(<<"t">>, FormatB),
                                     KeyFormat(<<"w">>, NoTemplate)>>],
      [present |-> TRUE, list |-> <<KeyFormat(<<"t">>, NoTemplate), KeyFormat(<<"t">>, FormatA)>>] }

\* The secret s/v alone, unprefixed, under every keys list, with and without
\* a global format.
KeysConfigs ==
    { [LoopConfig(WaitConfig(FALSE, 0, 0), FALSE) EXCEPT
          !.Prefixes = <<>>,
          !.Secrets = <<[PrefixConfig(VaultPath, "true") EXCEPT !.Keys = k, !.Format = f]>>,
          !.Upcase = FALSE] :
        k \in KeyLists, f \in {NoTemplate, GlobalFormat} }

InitKeys == \E cfg \in NoPrefixConfigs \cup KeysConfigs : NewRunner(cfg, FALSE, 1, <<>>)

NextKeys ==
    \/ StartBegin
    \/ Deliver
    \/ LoopData
    \/ LoopDrain
    \/ LoopRun
    \/ LoopRunStop
    \/ LoopRunSpawn
    \/ LoopRunAssign

SpecKeys == InitKeys /\ [][NextKeys]_vars

\* What the properties below say of the snapshot the build reads.
KVDep(i) == KVListQuery(config.Prefixes[i].Path.toks)
SecretDep(i) == VaultReadQuery(config.Secrets[i].Path.toks)
Cased(k) ==
    LET k1 == IF config.Sanitize THEN ReplaceInvalid(k) ELSE k
    IN IF config.Upcase THEN ToUpper(k1) ELSE k1
WithPath(path, k) == JoinUnderscore(ReplaceInvalid(path), k)
NoFormats ==
    /\ \A i \in DOMAIN config.Prefixes : config.Prefixes[i].Format = NoTemplate
    /\ \A i \in DOMAIN config.Secrets :
        config.Secrets[i].Format = NoTemplate /\ config.Secrets[i].Keys = NoKeys
PlainSecret(m) ==
    \A k \in DOMAIN m : m[k].t = "string" /\ ~TrimmedEmpty(k)
PlainSecrets ==
    \A i \in DOMAIN config.Secrets : PlainSecret(data[SecretDep(i)].Data)
Completes == RunReturns /\ lastRun'.result \in Built
ExpectedKVKeys ==
    UNION { { Cased(IF config.Prefixes[i].NoPrefix = "false"
                    THEN WithPath(config.Prefixes[i].Path.toks, pair.Key)
                    ELSE pair.Key) :
                pair \in {q \in Range(data[KVDep(i)].pairs) : ~TrimmedEmpty(q.Key)} } :
            i \in DOMAIN config.Prefixes }
ExpectedSecretKeys ==
    UNION { { Cased(IF config.Secrets[i].NoPrefix \in {"unset", "false"}
                    THEN WithPath(config.Secrets[i].Path.toks, k)
                    ELSE k) :
                k \in DOMAIN data[SecretDep(i)].Data } :
            i \in DOMAIN config.Secrets }

\* C22: with no format and no keys list, a completed build emits for a KV
\* pair the key PATH_k (PATH the path with its invalid characters replaced)
\* when no_prefix is false and the key k when it is unset or true, and for
\* a secret entry the key PATH_k when no_prefix is unset or false and the key
\* k when it is true; it emits no other key.
C22_NoPrefixTable ==
    [][(Completes /\ NoFormats /\ PlainSecrets) =>
        DOMAIN lastRun'.emitted = ExpectedKVKeys \cup ExpectedSecretKeys]_vars

\* foo/bar/baz with no_prefix false, s/v with no_prefix unset, sanitize and
\* upcase off: the build emitted foo_bar_baz_t and s_v_t.
C22_Witness ==
    /\ lastRun.result \in Built
    /\ ~config.Sanitize /\ ~config.Upcase
    /\ Len(config.Prefixes) = 1 /\ config.Prefixes[1].NoPrefix = "false"
    /\ config.Secrets[1].NoPrefix = "unset"
    /\ <<"f", "o", "o", "_", "b", "a", "r", "_", "b", "a", "z", "_", "t">> \in DOMAIN lastRun.emitted
    /\ <<"s", "_", "v", "_", "t">> \in DOMAIN lastRun.emitted
    /\ <<"t">> \notin DOMAIN lastRun.emitted

\* What a format makes of a key: the text with {{key}} replaced.
Formatted(format, k) == ExecTokens(format.toks, (KeyAction :> k), <<>>)
ListedAs(cp, k) == {j \in DOMAIN cp.Keys.list : cp.Keys.list[j].Name = k}
ListedWithFormat(cp, k) == {j \in ListedAs(cp, k) : cp.Keys.list[j].Format # NoTemplate}
\* The output keys of the secret key k under the secret configuration cp,
\* unprefixed and with sanitize and upcase off.
OutputKeys(cp, k) ==
    IF cp.Format # NoTemplate THEN {Formatted(cp.Format, k)}
    ELSE IF ~cp.Keys.present THEN {k}
    ELSE IF ListedAs(cp, k) = {} THEN {}
    ELSE IF ListedWithFormat(cp, k) = {} THEN {k}
    ELSE {Formatted(cp.Keys.list[j].Format, k) : j \in ListedWithFormat(cp, k)}
OnlyBareSecret ==
    /\ config.Prefixes = <<>> /\ config.Services = <<>> /\ Len(config.Secrets) = 1
    /\ config.Secrets[1].NoPrefix = "true"
    /\ ~config.Sanitize /\ ~config.Upcase

\* C23: a completed build of one unprefixed secret emits, for a keys list
\* without a global format, only the secret keys the list names: for each,
\* one output key per entry of that name with a format, or the key itself
\* when no entry of that name has a format; nothing for an empty list.
\* With a global format the list is ignored and every key is emitted under
\* the global format.  Each output key holds the value of its secret key.
C23_PerKeyRestriction ==
    [][(Completes /\ OnlyBareSecret /\ PlainSecrets) =>
        LET cp == config.Secrets[1]
            m == data[SecretDep(1)].Data
        IN /\ DOMAIN lastRun'.emitted = UNION {OutputKeys(cp, k) : k \in DOMAIN m}
           /\ \A k \in DOMAIN m : \A out \in OutputKeys(cp, k) : lastRun'.emitted[out] = m[k].s]_vars

\* The list names t twice with a format and w without one, no global
\* format: the build of {t: 3, w: 6} emitted A_t = 3, B_t = 3 and w = 6.
C23_Witness ==
    /\ OnlyBareSecret
    /\ config.Secrets[1].Format = NoTemplate
    /\ lastRun.result \in Built
    /\ lastRun.emitted = (<<"A", "_", "t">> :> <<"3">>) @@ (<<"B", "_", "t">> :> <<"3">>)
                         @@ (<<"w">> :> <<"6">>)

\* The entries a secret payload m stands for: those of its inner data map
\* when it holds a metadata map with a version, its own otherwise.
HasVersion(m) ==
    /\ MetadataKey \in DOMAIN m
    /\ m[MetadataKey].t = "map"
    /\ VersionKey \in DOMAIN m[MetadataKey].m
    /\ m[MetadataKey].m[VersionKey].t # "nil"
Unwrapped(m) ==
    IF ~HasVersion(m) THEN m
    ELSE IF DataKey \in DOMAIN m /\ m[DataKey].t = "map" THEN m[DataKey].m
    ELSE EmptyMap
StringEntries(m) ==
    [k \in {j \in DOMAIN m : m[j].t = "string" /\ ~TrimmedEmpty(j)} |-> m[k].s]
NoSecretFormats == config.Secrets[1].Format = NoTemplate /\ config.Secrets[1].Keys = NoKeys

\* C24: a build of one unprefixed secret, reached with the secret's data,
\* completes and emits the string entries of the inner data map when the
\* payload has a metadata map with a version (nothing when the inner data
\* is absent), and the string entries of the payload itself otherwise.
C24_Kv2Unwrap ==
    [][(RunReturns /\ ~SomeDependencyWithoutData /\ OnlyBareSecret /\ NoSecretFormats) =>
        /\ lastRun'.result \in Built
        /\ lastRun'.emitted = StringEntries(Unwrapped(data[SecretDep(1)].Data))]_vars

\* One KV prefix and one secret, both unprefixed, keys left as they are.
BareBoth ==
    /\ Len(config.Prefixes) = 1 /\ config.Prefixes[1].NoPrefix # "false"
    /\ Len(config.Secrets) = 1 /\ config.Secrets[1].NoPrefix = "true"
    /\ ~config.Sanitize /\ ~config.Upcase
    /\ NoFormats
KVPairsOf(i) == {q \in Range(data[KVDep(i)].pairs) : ~TrimmedEmpty(q.Key)}
Passed(m, k) == TrimmedEmpty(k) \/ m[k].t # "string"

\* C25: in a completed build, a secret entry with a blank key, a nil value
\* or a value that is not a string assigns nothing: its key is in the
\* environment only if the KV prefix, built before it, put it there, and
\* then with the KV value; the other entries of the secret are assigned.
C25_SkippedEntries ==
    [][(Completes /\ BareBoth /\ ~HasVersion(data[SecretDep(1)].Data)) =>
        LET m == data[SecretDep(1)].Data IN
        \A k \in DOMAIN m :
            IF Passed(m, k)
            THEN /\ k \in DOMAIN lastRun'.emitted <=> \E q \in KVPairsOf(1) : q.Key = k
                 /\ \A q \in KVPairsOf(1) : q.Key = k => lastRun'.emitted[k] = q.Value
            ELSE /\ k \in DOMAIN lastRun'.emitted
                 /\ lastRun'.emitted[k] = m[k].s]_vars

\* KV {t: 1, w: 2}, then the secret {t: "3", w: a number, z: nil, " ": "5"}:
\* the build has just emitted t = 3 and w = 2 and nothing else.
C25_Witness ==
    /\ BareBoth
    /\ pc = "run_spawn"
    /\ {<<"w">>, <<"z">>, <<" ">>} \subseteq DOMAIN data[SecretDep(1)].Data
    /\ data[SecretDep(1)].Data[<<"w">>].t = "number"
    /\ lastRun.emitted = (<<"t">> :> <<"3">>) @@ (<<"w">> :> <<"2">>)

\* ------------------------------------------------------------------------
\* Properties of Start's first steps, of Signal and of the child handle
\* ------------------------------------------------------------------------

StartLeaves == pc = "start" /\ pc' # pc
PidErrorPending == pc = "errsend" /\ ErrCh = "pid"
NothingStarted == watching = {} /\ procs = <<>> /\ child = 0 /\ lastCase = "none"

\* C26: Start either creates the configured PID file and goes on to register
\* the dependencies, or, the file being configured and not created or not
\* written, sends the error on ErrCh with nothing registered; while the
\* error waits for its receiver and after Start has returned on it, no
\* dependency is registered, no case of the loop is taken and no child is
\* spawned.  Without a configured PID file none is ever written.
C26_PidFileFatal ==
    /\ [][StartLeaves =>
            \/ pc' = "select" /\ (config.PidFile => pidFile')
            \/ config.PidFile /\ pc' = "errsend" /\ ErrCh' = "pid" /\ NothingStarted']_vars
    /\ [][PidErrorPending =>
            /\ NothingStarted'
            /\ PidErrorPending' \/ (pc' = "returned" /\ ErrCh' = "none")]_vars
    /\ [][(pc = "returned" /\ NothingStarted) => (pc' = "returned" /\ NothingStarted')]_vars
    /\ [](~config.PidFile => ~pidFile)

\* A PID file was configured, storePid failed, the error was received and
\* Start returned: nothing is watched and no child exists.
C26_Witness ==
    /\ config.PidFile
    /\ pc = "returned"
    /\ nErrs = 0
    /\ NothingStarted
    /\ ~DoneCh

SignalCalled == lastSignal' # lastSignal

InitLock ==
    \E o \in BOOLEAN : NewRunner(LoopConfig(WaitConfig(FALSE, 0, 0), FALSE), o, 1, <<>>)

NextLock ==
    \/ LoopStep
    \/ SignalLock
    \/ SignalUnlock

SpecLock == InitLock /\ [][NextLock]_vars

SwapsChild == child' # child
StopsChild == \E c \in DOMAIN procs : procs[c].state = "running" /\ procs'[c].state = "stopped"

\* C28: the child handle is swapped and the child is stopped only while
\* r.childLock is held for writing, and never while a call of Signal holds
\* it for reading.
C28_ChildLocking ==
    /\ [][(SwapsChild \/ StopsChild) => childLock.writer]_vars
    /\ [][(SwapsChild \/ StopsChild) => "Signal" \notin childLock.readers]_vars

\* ------------------------------------------------------------------------
\* Publishing the exit code
\* ------------------------------------------------------------------------

\* The loop holds an exit code it has taken from exitCh and not yet sent.
Publishing == pc = "publish"
BufferFull == Len(ExitCh) = ExitChCap

\* C29: the publication of an exit code never blocks: whenever the loop has
\* received the child's exit code, the send on ExitCh can complete at once,
\* an earlier code still unread in the buffer or not.
C29_PublishNeverBlocks == Publishing => ~BufferFull

\* ------------------------------------------------------------------------
\* Bursts of data events, with and without a quiescence window
\* ------------------------------------------------------------------------

InitBurst ==
    \E o \in BOOLEAN, w \in BOOLEAN :
        NewRunner(LoopConfig(IF w THEN WaitConfig(TRUE, MinTicks, MaxTicks)
                                  ELSE WaitConfig(FALSE, 0, 0), FALSE), o, 1, <<>>)

NextBurst ==
    \/ LoopStep
    \/ LoopMinTimer
    \/ LoopMaxTimer
    \/ Tick

SpecBurst == InitBurst /\ [][NextBurst]_vars

\* The loop ends the drain: it arms the timers or goes on to the build.
LeavesDrain == pc = "drain" /\ pc' # "drain"

\* The snapshot holds, for every dependency, what the watcher delivered last.
SnapshotLatest == \A d \in DOMAIN lastSent : d \in DOMAIN data /\ data[d] = lastSent[d]

\* A burst under way: one event received, and another one immediately
\* available that brings a newer value for a dependency of the snapshot.
BurstPending ==
    /\ pc = "drain"
    /\ dataCh # <<>>
    /\ Head(dataCh).dep \in DOMAIN data
    /\ data[Head(dataCh).dep] # Head(dataCh).data

\* C30: after a data event is received, the loop arms a timer or goes to
\* the build only once no data event is left on the data channel; the
\* snapshot then holds the latest value of every dependency; and the
\* snapshot changes nowhere but in the receive and the drain, so the events
\* of one burst reach one build at most.
C30_BurstCoalescing ==
    /\ [][LeavesDrain => dataCh = <<>> /\ SnapshotLatest]_vars
    /\ [][data' # data => pc \in {"select", "drain"} /\ pc' = "drain"]_vars

C30_Witness == BurstPending

\* ------------------------------------------------------------------------
\* Loading the configuration (config.go): Parse, Must, Copy, Merge, FromPath
\* ------------------------------------------------------------------------

\* A configuration text is a sequence of lines `key = value`; a value is a
\* boolean, a string or a number.  A line that is not HCL is Garbage.
BoolVal(b) == [t |-> "bool", b |-> b]
StrVal(str) == [t |-> "string", str |-> str]
NumVal(n) == [t |-> "number", n |-> n]
Line(key, val) == [key |-> key, val |-> val]
Garbage == Line("{", BoolVal(FALSE))

\* A pointer field of Config: nil, or set to a value.
Unset == [set |-> FALSE]
SetTo(v) == [set |-> TRUE, v |-> v]

\* The scalar fields of Config (lines 36-88) and their mapstructure keys.
Fields ==
    {"KillSignal", "LogLevel", "MaxStale", "PidFile", "Pristine", "ReloadSignal",
     "Sanitize", "Upcase"}
KeyOf ==
    [f \in Fields |->
        CASE f = "KillSignal" -> "kill_signal"
          [] f = "LogLevel" -> "log_level"
          [] f = "MaxStale" -> "max_stale"
          [] f = "PidFile" -> "pid_file"
          [] f = "Pristine" -> "pristine"
          [] f = "ReloadSignal" -> "reload_signal"
          [] f = "Sanitize" -> "sanitize"
          [] f = "Upcase" -> "upcase"]

\* var c Config
ZeroConfig == [f \in Fields |-> Unset]

\* signals.StringToSignalFunc: the names it knows, and their numbers.
SignalLookup == ("SIGHUP" :> 1) @@ ("SIGINT" :> 2) @@ ("SIGQUIT" :> 3) @@ ("SIGTERM" :> 15)
\* mapstructure.StringToTimeDurationHookFunc: time.ParseDuration, in seconds.
ParseDuration == ("1s" :> 1) @@ ("2s" :> 2) @@ ("1m" :> 60)

\* hcl.Decode (line 229) fails on a line that is not HCL.
DecodeFails(text) == \E i \in DOMAIN text : text[i] = Garbage

\* The decoded document `parsed`: key -> value.  A key given twice keeps
\* the value given last.
Parsed(text) ==
    [k \in {text[i].key : i \in DOMAIN text} |->
        text[CHOOSE i \in DOMAIN text :
                /\ text[i].key = k
                /\ \A j \in DOMAIN text : text[j].key = k => j <= i].val]

\* The deprecation of `path` (lines 273-277): the key is deleted.
DropPath(parsed) == [k \in DOMAIN parsed \ {"path"} |-> parsed[k]]

\* decoder.Decode of one field (lines 371-393): ErrorUnused and no weak
\* typing, so a value of the wrong type is an error; the decode hooks turn
\* a string into a signal or a duration.
DecodeField(f, val) ==
    CASE f \in {"Pristine", "Sanitize", "Upcase"} ->
            IF val.t = "bool" THEN [ok |-> TRUE, v |-> SetTo(val.b)]
            ELSE [ok |-> FALSE, v |-> Unset]
      [] f \in {"LogLevel", "PidFile"} ->
            IF val.t = "string" THEN [ok |-> TRUE, v |-> SetTo(val.str)]
            ELSE [ok |-> FALSE, v |-> Unset]
      [] f = "MaxStale" ->
            IF val.t = "number" THEN [ok |-> TRUE, v |-> SetTo(val.n)]
            ELSE IF val.t = "string" /\ val.str \in DOMAIN ParseDuration
            THEN [ok |-> TRUE, v |-> SetTo(ParseDuration[val.str])]
            ELSE [ok |-> FALSE, v |-> Unset]
      [] f \in {"KillSignal", "ReloadSignal"} ->
            IF val.t = "string" /\ val.str \in DOMAIN SignalLookup
            THEN [ok |-> TRUE, v |-> SetTo(SignalLookup[val.str])]
            ELSE [ok |-> FALSE, v |-> Unset]

\* Parse (lines 226-396), the scalar keys of the document: the struct it
\* fills, or an error and no struct.
Parse(text) ==
    IF DecodeFails(text) THEN [err |-> TRUE, c |-> ZeroConfig]
    ELSE LET parsed == DropPath(Parsed(text))
             known == {KeyOf[f] : f \in Fields}
             field(f) == IF KeyOf[f] \in DOMAIN parsed
                         THEN DecodeField(f, parsed[KeyOf[f]])
                         ELSE [ok |-> TRUE, v |-> Unset]
         IN  IF DOMAIN parsed \subseteq known /\ \A f \in Fields : field(f).ok
             THEN [err |-> FALSE, c |-> [f \in Fields |-> field(f).v]]
             ELSE [err |-> TRUE, c |-> ZeroConfig]

\* &c: a new struct on the heap.
New(h, c) == [h |-> Append(h, c), a |-> Len(h) + 1]

\* What Parse returns: (&c, nil), or (nil, err) on every error path.
ParseAt(h, text) ==
    LET r == Parse(text)
    IN  IF r.err THEN [h |-> h, a |-> 0, err |-> TRUE]
        ELSE [h |-> New(h, r.c).h, a |-> New(h, r.c).a, err |-> FALSE]

\* Must (lines 401-407): the error is logged, and c is returned as Parse
\* gave it.
Must(h, text) ==
    LET r == ParseAt(h, text)
    IN  [h |-> r.h, a |-> r.a, logged |-> r.err]

\* A slip: the copy is the receiver itself.
CopyShared(h, c) == [h |-> h, a |-> c]

\* Config.Copy (lines 92-142): var o Config, every scalar field assigned.
Copy(h, c) == New(h, h[c])

\* A slip: a field the receiver has set is kept.
MergeFieldKeep(rv, ov) == IF rv.set THEN rv ELSE ov

\* if o.X != nil { r.X = o.X } (lines 166-212)
MergeField(rv, ov) == IF ov.set THEN ov ELSE rv

\* Config.Merge (lines 144-223)
Merge(h, c, o) ==
    IF c = 0
    THEN IF o = 0 THEN [h |-> h, a |-> 0] ELSE Copy(h, o)
    ELSE IF o = 0 THEN Copy(h, c)
    ELSE LET r == Copy(h, c)
         IN  [h |-> [r.h EXCEPT ![r.a] = [f \in Fields |-> MergeField(r.h[r.a][f], r.h[o][f])]],
              a |-> r.a]

\* The entries of a directory: a regular file with its text, or a directory
\* with nothing in it.
File(text) == [isDir |-> FALSE, text |-> text]
SubDir == [isDir |-> TRUE, text |-> <<>>]

\* The entry names, in lexical order.
Names == <<"a", "b", "c">>

\* filepath.Walk visits the entries of a directory in lexical order.
WalkOrder(d) == SelectSeq(Names, LAMBDA n : n \in DOMAIN d)

\* The configuration texts the model draws from.
Texts ==
    { <<>>,
      << Line("pristine", BoolVal(TRUE)), Line("log_level", StrVal("info")),
         Line("pid_file", StrVal("/p1")), Line("max_stale", StrVal("1s")) >>,
      << Line("pristine", BoolVal(FALSE)), Line("upcase", BoolVal(TRUE)),
         Line("kill_signal", StrVal("SIGTERM")) >>,
      << Line("sanitize", BoolVal(TRUE)), Line("upcase", BoolVal(FALSE)),
         Line("log_level", StrVal("debug")), Line("kill_signal", StrVal("SIGQUIT")),
         Line("max_stale", NumVal(2)), Line("pid_file", StrVal("/p2")),
         Line("reload_signal", StrVal("SIGINT")) >>,
      << Line("path", StrVal("x")), Line("sanitize", BoolVal(FALSE)) >>,
      << Line("upcase", BoolVal(TRUE)), Garbage >>,
      << Line("bogus", NumVal(1)) >>,
      << Line("pristine", StrVal("maybe")) >>,
      << Line("kill_signal", StrVal("SIGNONE")) >> }

Dirs ==
    UNION { [S -> {File(t) : t \in Texts} \cup {SubDir}] : S \in SUBSET Range(Names) }

Walking == loadResult.state = "walking"

\* One call of the WalkFunc (lines 456-474).
Walk ==
    /\ Walking
    /\ walked < Len(WalkOrder(dir))
    /\ LET info == dir[WalkOrder(dir)[walked + 1]]
           newConfig == ParseAt(heap, info.text)
           merged == Merge(newConfig.h, walkC, newConfig.a)
       IN  IF info.isDir
           THEN /\ walked' = walked + 1
                /\ UNCHANGED << heap, walkC, loadResult >>
           ELSE IF newConfig.err
           THEN /\ loadResult' = [state |-> "error", cfg |-> 0]
                /\ walked' = walked + 1
                /\ UNCHANGED << heap, walkC >>
           ELSE /\ heap' = merged.h
                /\ walkC' = merged.a
                /\ walked' = walked + 1
                /\ UNCHANGED loadResult
    /\ UNCHANGED << cfgVars, lockVars, runnerVars, stopVars, watcherVars, childVars, loopVars,
                    timeVars, lastSignal, dir, mustResult >>

\* return c, nil (line 480)
FromPathReturn ==
    /\ Walking
    /\ walked = Len(WalkOrder(dir))
    /\ loadResult' = [state |-> "ok", cfg |-> walkC]
    /\ UNCHANGED << cfgVars, lockVars, runnerVars, stopVars, watcherVars, childVars, loopVars,
                    timeVars, lastSignal, dir, heap, walkC, walked, mustResult >>

\* Must(s)
MustCall ==
    /\ ~mustResult.called
    /\ \E text \in Texts :
        LET r == Must(heap, text)
        IN  /\ heap' = r.h
            /\ mustResult' = [called |-> TRUE, cfg |-> r.a, logged |-> r.logged]
    /\ UNCHANGED << cfgVars, lockVars, runnerVars, stopVars, watcherVars, childVars, loopVars,
                    timeVars, lastSignal, dir, walkC, walked, loadResult >>

\* FromPath is given a directory (line 446); no runner is started.
InitLoad ==
    /\ NewRunnerFields(EmptyMap, LoopConfig(WaitConfig(FALSE, 0, 0), FALSE), FALSE, 1, <<>>)
    /\ dir \in Dirs
    /\ heap = <<>>
    /\ walkC = 0
    /\ walked = 0
    /\ loadResult = [state |-> "walking", cfg |-> 0]
    /\ mustResult = NotCalled

NextLoad ==
    \/ Walk
    \/ FromPathReturn
    \/ MustCall

SpecLoad == InitLoad /\ [][NextLoad]_vars

\* C31: when Parse fails, Must logs the error and still returns a non-nil
\* config.
C31_MustNonNil == mustResult.called /\ mustResult.logged => mustResult.cfg # 0

\* The regular files of the directory, in walk order.
RegularFiles == SelectSeq(WalkOrder(dir), LAMBDA n : ~dir[n].isDir)
FileConfig(n) == Parse(dir[n].text)
SomeFileFails == \E i \in DOMAIN RegularFiles : FileConfig(RegularFiles[i]).err
\* The files that set field f, by their place in the walk.
Setters(f) == {i \in DOMAIN RegularFiles : FileConfig(RegularFiles[i]).c[f].set}
Latest(S) == CHOOSE i \in S : \A j \in S : j <= i
LastWins(f) ==
    IF Setters(f) = {} THEN Unset ELSE FileConfig(RegularFiles[Latest(Setters(f))]).c[f]
Loaded == loadResult.state = "ok"
Failed == loadResult.state = "error"

\* C32: FromPath on a directory folds the regular files in walk order: the
\* load ends without an error exactly when no file fails, and then every
\* scalar field holds the value of the last file that sets it, or is unset
\* when no file sets it (with no regular file at all there is no config);
\* a failed load returns no config; and no struct that exists is written.
C32_DirectoryLoad ==
    /\ [](Loaded => ~SomeFileFails)
    /\ [](Failed => SomeFileFails /\ loadResult.cfg = 0)
    /\ [](Loaded /\ RegularFiles = <<>> => loadResult.cfg = 0)
    /\ [](Loaded /\ RegularFiles # <<>> =>
            /\ loadResult.cfg \in DOMAIN heap
            /\ \A f \in Fields : heap[loadResult.cfg][f] = LastWins(f))
    /\ [][\A a \in DOMAIN heap : a \in DOMAIN heap' /\ heap'[a] = heap[a]]_vars

\* Three regular files loaded; a field set by the first and the last with
\* different values, a field set by the second only, a field set by none.
C32_Witness ==
    /\ Loaded
    /\ Len(RegularFiles) = 3
    /\ Setters("Pristine") = {1, 3}
    /\ FileConfig(RegularFiles[1]).c["Pristine"] # FileConfig(RegularFiles[3]).c["Pristine"]
    /\ Setters("Sanitize") = {2}
    /\ Setters("ReloadSignal") = {}

\* ------------------------------------------------------------------------
\* The life of the supervisor after Stop
\* ------------------------------------------------------------------------

\* A build is applied: r.env takes a new value.
AppliesBuild == env' # env

\* C33: once Stop has closed DoneCh, the event loop spawns no child and
\* applies no build.
C33_MonotonicLifecycle == [][DoneCh => ~Spawns /\ ~AppliesBuild]_vars

\* ------------------------------------------------------------------------
\* The quiescent window and the timers
\* ------------------------------------------------------------------------

\* The timers are armed and neither has been received from.
TimersArmed == minTimer # NoTimer \/ maxTimer # NoTimer
\* The loop is in Run: building, stopping the child or spawning one.
InRun == pc \in {"run", "run_stop", "run_spawn", "run_assign"}

\* C34: while the quiescent window is open (the timers armed, none fired
\* yet) the loop attempts no build and stops or spawns no child, whatever
\* else it handles.
C34_WindowNotCutShort == TimersArmed => ~InRun

\* ------------------------------------------------------------------------
\* The first build and the builds after a natural exit
\* ------------------------------------------------------------------------

\* Run returns from a build that emitted the empty environment.
BuildsEmpty == RunReturns /\ lastRun'.result \in Built /\ lastRun'.emitted = EmptyMap

\* C35: the first build in which every dependency has data goes on to spawn
\* a child even when it emits the empty environment, the remembered
\* environment being unset until then; a later build that emits the empty
\* environment again changes nothing and spawns nothing.
C35_InitialSpawn ==
    /\ [][BuildsEmpty /\ env.nil =>
            /\ lastRun'.result = "changed"
            /\ env' = EnvOf(EmptyMap)
            /\ pc' = "run_spawn"]_vars
    /\ [][BuildsEmpty /\ env = EnvOf(EmptyMap) =>
            /\ lastRun'.result = "same"
            /\ pc' = "select"
            /\ UNCHANGED << env, child, procs >>]_vars

\* A child was spawned with the empty environment, and a later build that
\* emitted the empty environment again left it the only one.
C35_Witness ==
    /\ Len(procs) = 1
    /\ procs[1].emitted = EmptyMap
    /\ child = 1
    /\ lastRun = [result |-> "same", emitted |-> EmptyMap]
    /\ pc = "select"

\* The spawn of a build fails: Run returns the error to Start.
SpawnFails == pc = "run_spawn" /\ pc' = "errsend"
GaveUp == pc \in {"errsend", "returned"}

\* C36: when the spawn of a build fails, Start sends the error on ErrCh and
\* returns without handling another event; by then the remembered
\* environment is the one just built, and the child handle is the one of
\* the previous child, which is no longer running, or nil if there was
\* none; no child was added.
C36_SpawnFailureFatal ==
    /\ [][SpawnFails =>
            /\ ErrCh' = "run"
            /\ env = EnvOf(lastRun.emitted)
            /\ UNCHANGED << env, child, procs >>
            /\ child # 0 => procs[child].state # "running"]_vars
    /\ [][GaveUp => GaveUp']_vars
    /\ [](lastRun.result = "error" => GaveUp)

\* Start has returned after a failed spawn that replaced a child: the
\* handle still names the child Run stopped.
C36_Witness ==
    /\ lastRun.result = "error"
    /\ pc = "returned"
    /\ child # 0
    /\ procs[child].state = "stopped"
    /\ env = EnvOf(lastRun.emitted)
    /\ procs[child].emitted # env.m

\* ------------------------------------------------------------------------
\* Termination of the event loop: nobody reads ErrCh or ExitCh
\* ------------------------------------------------------------------------

\* The steps of the goroutine that runs Start.
LoopActs ==
    \/ StartBegin
    \/ LoopData
    \/ LoopDrain
    \/ LoopWatcherErr
    \/ LoopTokenErr
    \/ LoopExit
    \/ LoopPublish
    \/ LoopDone
    \/ LoopRun
    \/ LoopRunStop
    \/ LoopRunSpawn
    \/ LoopRunAssign

NextLive ==
    \/ LoopActs
    \/ Deliver
    \/ Exits
    \/ StopCalls

\* The goroutine of Start runs whenever it can, and the select picks a
\* case that stays ready: DoneCh, once closed, is ready at every select.
Fairness == WF_vars(LoopActs) /\ SF_vars(LoopDone)

SpecLive == Init /\ [][NextLive]_vars /\ Fairness

\* C37: after Stop has closed DoneCh, Start eventually returns, with no
\* reader on ErrCh or ExitCh either.
C37_LoopTerminates == DoneCh ~> pc = "returned"

\* ------------------------------------------------------------------------
\* After the child has terminated on its own
\* ------------------------------------------------------------------------

\* The loop completes the send of the exit code it received.
Publishes == pc = "publish" /\ pc' # pc
AfterExit == lastCase = "exit"

AtSelect == pc = "select"
BothCleared == minTimer = NoTimer /\ maxTimer = NoTimer
BothArmed == minTimer # NoTimer /\ maxTimer # NoTimer

\* C39: wherever the loop waits for an event the two timers are both armed
\* or both cleared; when either fires both are cleared; and without a
\* quiescence window configured both stay cleared.
C39_TimerPairing ==
    /\ [](AtSelect => BothArmed \/ BothCleared)
    /\ [][TimerFires => BothCleared']_vars
    /\ [](~config.Wait.Enabled => BothCleared)

\* A second window: the timers are armed again after an earlier window
\* ended with a timer firing and a build that spawned the child.
C39_Witness ==
    /\ AtSelect
    /\ BothArmed
    /\ config.Wait.Enabled
    /\ Len(procs) >= 1
    /\ lastCase = "data"

====
